---- MODULE Spec2Model ----
(***************************************************************************)
(* Cache-first dividend query (BitensorService.get_tao_dividends over      *)
(* AsyncRedisCache and the lazily created AsyncSubtensor handle) and the   *)
(* sentiment-driven staking task (stake_based_on_sentiment._process).      *)
(*                                                                         *)
(* A Python value that may be None is modelled as a set with at most one   *)
(* element: None is {} and a value v is {v}.                               *)
(***************************************************************************)
EXTENDS Integers, Sequences, FiniteSets, TLC

VARIABLES
    cache,          \* redis: key -> [present, value, expires]
    now,            \* wall clock, seconds
    chain,          \* TaoDividendsPerSubnet storage: <<netuid, hotkey>> -> value
    subtensor,      \* BitensorService._subtensor: None or a handle id
    loop,           \* BitensorService._loop: None or the loop that built the handle
    wallet,         \* BitensorService._wallet: None or a wallet id
    handles,        \* every AsyncSubtensor built so far: id -> [loop, closes]
    curLoop,        \* the event loop now running in this process
    req,            \* the get_tao_dividends calls, by call number
    written,        \* per key: the record the last successful write-back stored
    wpc,            \* where the staking task's _process stands
    run,            \* the locals of the task run in progress (or just finished)
    runs,           \* number of task runs started in this worker process
    stake_transactions, \* the rows of table stake_transactions, in insert order
    mgr,            \* a caller using the handle manager one operation at a time
    http,           \* the GET /tao_dividends/ requests, by call number
    dividend_queries,   \* the rows of table dividend_queries, in insert order
    task_queue,     \* the stake_based_on_sentiment invocations the broker holds
    task_done,      \* the invocations a worker has run, with how each ended
    ledger          \* per task run of this worker process: what it did (history)

qvars == <<cache, now, chain, req, written>>
mvars == <<subtensor, loop, wallet, handles, curLoop>>
wvars == <<wpc, run, runs, stake_transactions, ledger>>
gvars == <<mgr>>
hvars == <<http, dividend_queries, task_queue, task_done>>
vars == <<cache, now, chain, subtensor, loop, wallet, handles, curLoop, req,
          written, wpc, run, runs, stake_transactions, mgr, http,
          dividend_queries, task_queue, task_done, ledger>>

----------------------------------------------------------------------------
(* Bounds of the model *)

MaxCalls == 2       \* get_tao_dividends calls in one behaviour, all may overlap
MaxLoops == 2       \* event loops the process runs one after the other
MaxDividend == 1    \* the chain holds values 0..MaxDividend
TickStep == 60      \* seconds the clock advances in one step
MaxTime == 120      \* the clock stops advancing here
MaxRuns == 2        \* task runs of one worker process, one after the other
MaxScore == 1       \* the numbers a model response may hold are 0..MaxScore

(* Program constants *)

DEFAULT_NETUID == 18
DEFAULT_HOTKEY == ""
CACHE_TTL == 120
STAKE_PER_POINT == 1    \* 0.01 TAO per sentiment point, in hundredths of a TAO

----------------------------------------------------------------------------
(* Values *)

None == {}
Some(v) == {v}
The(s) == CHOOSE v \in s : TRUE

Reqs == 1..MaxCalls
(* the (netuid, hotkey) arguments a caller passes; None takes the default *)
Args == {<<None, None>>, <<Some(1), Some("5F")>>, <<Some(18), None>>}
Dividends == 0..MaxDividend
NetErrors == {"SubstrateRequestException", "TimeoutError"}
ConstructError == "ConnectionRefusedError"

get_default_netuid == DEFAULT_NETUID
get_default_hotkey == DEFAULT_HOTKEY

ResolveNetuid(n) == IF n = None THEN get_default_netuid ELSE The(n)
ResolveHotkey(h) == IF h = None THEN get_default_hotkey ELSE The(h)

Pairs == {<<ResolveNetuid(a[1]), ResolveHotkey(a[2])>> : a \in Args}

(* AsyncRedisCache.generate_key: f"{base}:{':'.join(str(arg) for arg in args)}" *)
generate_key(base, netuid, hotkey) ==
    base \o ":" \o ToString(netuid) \o ":" \o hotkey

Keys == {generate_key("tao_dividends", p[1], p[2]) : p \in Pairs}

(* json.dumps of the result dict: its members in insertion order *)
json_dumps(r) ==
    << <<"netuid", r.netuid>>, <<"hotkey", r.hotkey>>,
       <<"dividend", r.dividend>>, <<"cached", r.cached>> >>

Member(s, name) ==
    LET idx == {i \in 1..Len(s) : s[i][1] = name}
        last == CHOOSE i \in idx : \A j \in idx : j <= i
    IN  s[last][2]

(* json.loads of a stored string: a dict of the members it holds *)
json_loads(s) ==
    [netuid |-> Member(s, "netuid"), hotkey |-> Member(s, "hotkey"),
     dividend |-> Member(s, "dividend"), cached |-> Member(s, "cached")]

(* json.loads accepts a string that is a document of name: value members *)
Decodable(s) == \A i \in 1..Len(s) : Len(s[i]) = 2

(* what json.loads raises on any other string *)
JSONDecodeError == "JSONDecodeError"

(* a stored string that is not a JSON document *)
Malformed == << <<"not json">> >>

NoEntry == [present |-> FALSE, value |-> <<>>, expires |-> 0]

(* mutant: the entry never expires *)
RedisGet_noexpiry(key) ==
    IF cache[key].present THEN Some(cache[key].value) ELSE None

(* what redis GET answers: the value of a live entry, else None *)
RedisGet(key) ==
    IF cache[key].present /\ now < cache[key].expires
    THEN Some(cache[key].value) ELSE None

(* what redis SET key value EX ttl leaves under the key *)
RedisSet(key, value, ttl) ==
    [cache EXCEPT ![key] = [present |-> TRUE, value |-> value, expires |-> now + ttl]]

(* Python truthiness of Optional[str] *)
Truthy(cd) == cd # None /\ Len(The(cd)) > 0

----------------------------------------------------------------------------
(* One call of get_tao_dividends *)

IdleReq ==
    [pc |-> "idle", netuid |-> 0, hotkey |-> "", key |-> "", loop |-> 0,
     cached_data |-> None, handle |-> None, closing |-> None,
     result |-> None, raised |-> None, netval |-> None, neterr |-> None,
     readAt |-> 0, acquires |-> 0, queries |-> 0, sets |-> 0,
     getok |-> None, setok |-> None]

(* a call that has read the cache: as a hit (line 90) or as a miss *)
Started(r) == req[r].pc \notin {"idle", "cache_get"}
Hit(r) == Started(r) /\ Truthy(req[r].cached_data)
Missed(r) == Started(r) /\ ~Truthy(req[r].cached_data)
PairOf(r) == <<req[r].netuid, req[r].hotkey>>

NoWrite == [any |-> FALSE, rec |-> [netuid |-> 0, hotkey |-> "", dividend |-> 0, cached |-> FALSE], at |-> 0]

----------------------------------------------------------------------------
(* The staking task: values *)

Abs(x) == IF x < 0 THEN -x ELSE x

Tok(t, v) == [t |-> t, v |-> v]

(* the model's answers, stripped, as tokens: a number, a sign, the marker
   "is:", white space, any other word *)
Responses ==
    UNION {{ <<Tok("num", k)>>,
             <<Tok("-", 0), Tok("num", k)>>,
             <<Tok("word", 0), Tok("is:", 0), Tok("sp", 0), Tok("num", k)>>,
             <<Tok("is:", 0), Tok("sp", 0), Tok("-", 0), Tok("num", k)>> } : k \in 0..MaxScore}
    \cup { <<Tok("word", 0)>> }

(* int(ai_response): an optional sign and digits, else ValueError (None) *)
int_of(resp) ==
    IF Len(resp) = 1 /\ resp[1].t = "num" THEN Some(resp[1].v)
    ELSE IF Len(resp) = 2 /\ resp[1].t = "-" /\ resp[2].t = "num" THEN Some(-resp[2].v)
    ELSE IF Len(resp) = 2 /\ resp[1].t = "+" /\ resp[2].t = "num" THEN Some(resp[2].v)
    ELSE None

(* re.search(r'is:\s*(\d+)', text): the digits after the leftmost "is:"
   that is followed, across white space only, by digits *)
extract_numeric_value(resp) ==
    LET hits == {i \in 1..Len(resp) :
                   /\ resp[i].t = "is:"
                   /\ \E j \in (i+1)..Len(resp) :
                         /\ resp[j].t = "num"
                         /\ \A m \in (i+1)..(j-1) : resp[m].t = "sp"}
    IN  IF hits = {} THEN None
        ELSE LET i == CHOOSE x \in hits : \A y \in hits : x <= y
                 j == CHOOSE x \in (i+1)..Len(resp) :
                        resp[x].t = "num" /\ \A m \in (i+1)..(x-1) : resp[m].t = "sp"
             IN  Some(resp[j].v)

(* analyze_sentiment lines 126-131 *)
parse_score(resp) ==
    IF int_of(resp) # None THEN int_of(resp) ELSE extract_numeric_value(resp)

(* mutant: the amount loses its sign *)
calculate_stake_amount_unsigned(sentiment_score) ==
    IF sentiment_score = None THEN 0 ELSE Abs(STAKE_PER_POINT * The(sentiment_score))

(* mutant: no score is taken for one point *)
calculate_stake_amount_default(sentiment_score) ==
    IF sentiment_score = None THEN STAKE_PER_POINT
    ELSE STAKE_PER_POINT * The(sentiment_score)

(* calculate_stake_amount, in hundredths of a TAO *)
calculate_stake_amount(sentiment_score) ==
    IF sentiment_score = None THEN 0 ELSE STAKE_PER_POINT * The(sentiment_score)

TweetLists == {<<>>, <<"tweet">>}
TweetsError == "Error fetching tweets: 500"
ModelError == "groq.APIConnectionError"
StakeError == "SubstrateRequestException"
WalletError == "KeyFileError"
DbErrors == [connect |-> "db connect refused", insert |-> "db insert failed",
             disconnect |-> "db disconnect failed"]

(* what add_stake / unstake may hand back: a hash, or an empty value *)
StakeReturns == {Some("0xhash"), Some(""), None}

(* a collaborator's call returns one of vals, or raises *)
Outcomes(vals) ==
    {[ok |-> TRUE, val |-> v] : v \in vals}
    \cup {[ok |-> FALSE, val |-> CHOOSE v \in vals : TRUE]}

(* Python truthiness of the returned tx_hash *)
TruthyHash(h) == h # None /\ The(h) # ""

NoDetails ==
    [netuid |-> 0, hotkey |-> "", sentiment_score |-> 0, amount |-> 0,
     action |-> "", status |-> "", tx_hash |-> None, error |-> None]

NoResult ==
    [returned |-> FALSE, success |-> FALSE, sentiment_score |-> 0,
     stake_amount |-> 0, tx_hash |-> None, error |-> None]

IdleRun ==
    [id |-> 0, netuid |-> 0, hotkey |-> "", loop |-> 0,
     response |-> None, scored |-> FALSE, score |-> None,
     sentiment_score |-> 0, stake_amount |-> 0,
     tx_details |-> NoDetails, tx_hash |-> None, handle |-> None,
     stake_calls |-> <<>>, unstake_calls |-> <<>>, returned_hash |-> None,
     raised |-> None, raised_at |-> "",
     inserts |-> 0, err_inserts |-> 0, err_written |-> FALSE,
     result |-> NoResult]

(* the caller of the manager: what it is waiting for, the operation in
   progress, and the operations completed so far *)
NoOp ==
    [op |-> "", ctx |-> 0, before |-> None, beforeLoop |-> None,
     closed |-> <<>>, closeRaised |-> FALSE, built |-> <<>>,
     returned |-> None, raised |-> None, after |-> None, afterLoop |-> None]

IdleMgr == [pc |-> "idle", cur |-> NoOp, log |-> <<>>]

(* one request to GET /tao_dividends/ *)
NoRequest ==
    [pc |-> "none", trade |-> FALSE,
     inserts |-> <<>>, insertok |-> None, delays |-> <<>>,
     response |-> None, error |-> None]

Init ==
    /\ cache = [k \in Keys |-> NoEntry]
    /\ now = 0
    /\ chain \in [Pairs -> {0}]
    /\ subtensor = None
    /\ loop = None
    /\ wallet = None
    /\ handles = <<>>
    /\ curLoop = 1
    /\ req = [r \in Reqs |-> IdleReq]
    /\ written = [k \in Keys |-> NoWrite]
    /\ wpc = "idle"
    /\ run = IdleRun
    /\ runs = 0
    /\ stake_transactions = <<>>
    /\ mgr = IdleMgr
    /\ http = [r \in Reqs |-> NoRequest]
    /\ dividend_queries = <<>>
    /\ task_queue = <<>>
    /\ task_done = <<>>
    /\ ledger = <<>>

----------------------------------------------------------------------------
(* BitensorService._get_subtensor / reset_connections.  The only point   *)
(* where _get_subtensor suspends is the await of close() inside          *)
(* reset_connections; the rest runs without yielding to other tasks.     *)

NewHandle(l) == [loop |-> l, closes |-> 0]

(* mutant: a constructor that raises is swallowed and the call goes on *)
GetSubtensorFinish_swallows(r, q, s, l, cok) ==
    IF s = None /\ cok
    THEN /\ handles' = Append(handles, NewHandle(q.loop))
         /\ subtensor' = Some(Len(handles) + 1)
         /\ loop' = Some(q.loop)
         /\ req' = [req EXCEPT ![r] =
                [q EXCEPT !.pc = "query", !.handle = Some(Len(handles) + 1)]]
    ELSE /\ subtensor' = s
         /\ loop' = l
         /\ UNCHANGED handles
         /\ req' = [req EXCEPT ![r] = [q EXCEPT !.pc = "query", !.handle = s]]

(* mutant: the loop is recorded before the handle is constructed *)
GetSubtensorFinish_loopfirst(r, q, s, l, cok) ==
    IF s = None
    THEN IF cok
         THEN /\ handles' = Append(handles, NewHandle(q.loop))
              /\ subtensor' = Some(Len(handles) + 1)
              /\ loop' = Some(q.loop)
              /\ req' = [req EXCEPT ![r] =
                     [q EXCEPT !.pc = "query", !.handle = Some(Len(handles) + 1)]]
         ELSE /\ subtensor' = None
              /\ loop' = Some(q.loop)
              /\ UNCHANGED handles
              /\ req' = [req EXCEPT ![r] =
                     [q EXCEPT !.pc = "raised", !.raised = Some(ConstructError)]]
    ELSE /\ subtensor' = s
         /\ loop' = l
         /\ UNCHANGED handles
         /\ req' = [req EXCEPT ![r] = [q EXCEPT !.pc = "query", !.handle = s]]

(* lines 28-33, entered with the fields holding s and l: build a handle  *)
(* when there is none (cok: the constructor returns), return the field   *)
GetSubtensorFinish(r, q, s, l, cok) ==
    IF s = None
    THEN IF cok
         THEN /\ handles' = Append(handles, NewHandle(q.loop))
              /\ subtensor' = Some(Len(handles) + 1)
              /\ loop' = Some(q.loop)
              /\ req' = [req EXCEPT ![r] =
                     [q EXCEPT !.pc = "query", !.handle = Some(Len(handles) + 1)]]
         ELSE /\ subtensor' = None
              /\ loop' = l
              /\ UNCHANGED handles
              /\ req' = [req EXCEPT ![r] =
                     [q EXCEPT !.pc = "raised", !.raised = Some(ConstructError)]]
    ELSE /\ subtensor' = s
         /\ loop' = l
         /\ UNCHANGED handles
         /\ req' = [req EXCEPT ![r] = [q EXCEPT !.pc = "query", !.handle = s]]

(* mutant: the loop of the handle is not compared with the running one *)
GetSubtensorEnter_anyloop(r, q, cok) ==
    GetSubtensorFinish(r, q, subtensor, loop, cok)

(* lines 21-26: a handle bound to another loop is reset first, and the   *)
(* task waits for its close()                                            *)
GetSubtensorEnter(r, q, cok) ==
    IF subtensor # None /\ loop # Some(q.loop)
    THEN /\ handles' = [handles EXCEPT ![The(subtensor)].closes = @ + 1]
         /\ req' = [req EXCEPT ![r] = [q EXCEPT !.pc = "closing", !.closing = subtensor]]
         /\ UNCHANGED <<subtensor, loop>>
    ELSE GetSubtensorFinish(r, q, subtensor, loop, cok)

----------------------------------------------------------------------------
(* get_tao_dividends, one action per stretch between two awaits *)

(* lines 76-89: resolve the defaults, build the key, ask the cache *)
StartCall(r, n, h) ==
    /\ req[r].pc = "idle"
    /\ \A o \in Reqs : o < r => req[o].pc # "idle"
    /\ req' = [req EXCEPT ![r] =
           [IdleReq EXCEPT !.pc = "cache_get",
                           !.netuid = ResolveNetuid(n),
                           !.hotkey = ResolveHotkey(h),
                           !.key = generate_key("tao_dividends", ResolveNetuid(n), ResolveHotkey(h)),
                           !.loop = curLoop]]
    /\ UNCHANGED <<cache, now, chain, written, mvars, wvars, gvars, hvars>>

(* AsyncRedisCache.get: the stored string, or None when redis fails *)
cache_get(key, up) == IF up THEN RedisGet(key) ELSE None

(* mutant: the cached flag is left as stored *)
HitResult_uncached(cd) == json_loads(The(cd))

(* lines 92-94 *)
HitResult(cd) == [json_loads(The(cd)) EXCEPT !.cached = TRUE]

(* mutant: a hit stores the entry again, with a new expiry *)
CacheGet_refreshes(r, up, cok) ==
    /\ req[r].pc = "cache_get"
    /\ LET cd == cache_get(req[r].key, up)
           q == [req[r] EXCEPT !.cached_data = cd, !.readAt = now, !.getok = Some(up)]
       IN  IF Truthy(cd) /\ Decodable(The(cd))
           THEN /\ req' = [req EXCEPT ![r] =
                       [q EXCEPT !.pc = "returned", !.result = Some(HitResult(cd))]]
                /\ cache' = RedisSet(req[r].key, The(cd), CACHE_TTL)
                /\ UNCHANGED <<subtensor, loop, handles>>
           ELSE IF Truthy(cd)
           THEN /\ req' = [req EXCEPT ![r] =
                       [q EXCEPT !.pc = "raised", !.raised = Some(JSONDecodeError)]]
                /\ UNCHANGED <<cache, subtensor, loop, handles>>
           ELSE /\ GetSubtensorEnter(r, [q EXCEPT !.acquires = @ + 1], cok)
                /\ UNCHANGED cache
    /\ UNCHANGED <<now, chain, written, wallet, curLoop, wvars, gvars, hvars>>

(* lines 89-98 and 123-126: the answer of the cache arrives; a hit
   returns, a miss goes on to the handle, and a stored string json.loads
   rejects (line 92) leaves the call by the except clause, which logs and
   raises again *)
CacheGet(r, up, cok) ==
    /\ req[r].pc = "cache_get"
    /\ LET cd == cache_get(req[r].key, up)
           q == [req[r] EXCEPT !.cached_data = cd, !.readAt = now, !.getok = Some(up)]
       IN  IF Truthy(cd) /\ Decodable(The(cd))
           THEN /\ req' = [req EXCEPT ![r] =
                       [q EXCEPT !.pc = "returned", !.result = Some(HitResult(cd))]]
                /\ UNCHANGED <<subtensor, loop, handles>>
           ELSE IF Truthy(cd)
           THEN /\ req' = [req EXCEPT ![r] =
                       [q EXCEPT !.pc = "raised", !.raised = Some(JSONDecodeError)]]
                /\ UNCHANGED <<subtensor, loop, handles>>
           ELSE GetSubtensorEnter(r, [q EXCEPT !.acquires = @ + 1], cok)
    /\ UNCHANGED <<cache, now, chain, written, wallet, curLoop, wvars, gvars, hvars>>

(* reset_connections lines 41-45 and _get_subtensor lines 28-33: close()
   returned or raised (the error is only logged), the fields are cleared,
   and a new handle is built *)
CloseDone(r, cok) ==
    /\ req[r].pc = "closing"
    /\ GetSubtensorFinish(r, req[r], None, None, cok)
    /\ UNCHANGED <<cache, now, chain, written, wallet, curLoop, wvars, gvars, hvars>>

(* lines 110-115 *)
MissResult(q, value) ==
    [netuid |-> q.netuid, hotkey |-> q.hotkey, dividend |-> value, cached |-> FALSE]

(* mutant: a failed query is tried again *)
Query_retry(r, outcome) ==
    /\ req[r].pc = "query"
    /\ IF outcome = "ok"
       THEN LET v == chain[<<req[r].netuid, req[r].hotkey>>]
            IN  req' = [req EXCEPT ![r] =
                    [@ EXCEPT !.pc = "cache_set", !.queries = @ + 1,
                              !.netval = Some(v),
                              !.result = Some(MissResult(req[r], v))]]
       ELSE req' = [req EXCEPT ![r] =
                    [@ EXCEPT !.pc = "query", !.queries = @ + 1,
                              !.neterr = Some(outcome)]]
    /\ UNCHANGED <<cache, now, chain, written, mvars, wvars, gvars, hvars>>

(* lines 100-118: the network answers the query, or the query raises *)
Query(r, outcome) ==
    /\ req[r].pc = "query"
    /\ IF outcome = "ok"
       THEN LET v == chain[<<req[r].netuid, req[r].hotkey>>]
            IN  req' = [req EXCEPT ![r] =
                    [@ EXCEPT !.pc = "cache_set", !.queries = @ + 1,
                              !.netval = Some(v),
                              !.result = Some(MissResult(req[r], v))]]
       ELSE req' = [req EXCEPT ![r] =
                    [@ EXCEPT !.pc = "raised", !.queries = @ + 1,
                              !.neterr = Some(outcome),
                              !.raised = Some(outcome)]]
    /\ UNCHANGED <<cache, now, chain, written, mvars, wvars, gvars, hvars>>

(* mutant: the write-back is skipped *)
cache_set_dropped(key, value, ttl, up) == cache

(* AsyncRedisCache.set: store under the key with the TTL, or do nothing
   and answer False when redis fails *)
cache_set(key, value, ttl, up) == IF up THEN RedisSet(key, value, ttl) ELSE cache

(* mutant: a failed write-back raises to the caller *)
CacheSet_fatal(r, up) ==
    /\ req[r].pc = "cache_set"
    /\ cache' = cache_set(req[r].key, json_dumps(The(req[r].result)), CACHE_TTL, up)
    /\ written' = IF up
                  THEN [written EXCEPT ![req[r].key] =
                           [any |-> TRUE, rec |-> The(req[r].result), at |-> now]]
                  ELSE written
    /\ req' = [req EXCEPT ![r] =
           IF up
           THEN [@ EXCEPT !.pc = "returned", !.sets = @ + 1, !.setok = Some(up)]
           ELSE [@ EXCEPT !.pc = "raised", !.sets = @ + 1, !.setok = Some(up),
                          !.raised = Some("redis.ConnectionError")]]
    /\ UNCHANGED <<now, chain, mvars, wvars, gvars, hvars>>

(* lines 118-121: the write-back is answered and the record is returned *)
CacheSet(r, up) ==
    /\ req[r].pc = "cache_set"
    /\ cache' = cache_set(req[r].key, json_dumps(The(req[r].result)), CACHE_TTL, up)
    /\ written' = IF up
                  THEN [written EXCEPT ![req[r].key] =
                           [any |-> TRUE, rec |-> The(req[r].result), at |-> now]]
                  ELSE written
    /\ req' = [req EXCEPT ![r] =
           [@ EXCEPT !.pc = "returned", !.sets = @ + 1, !.setok = Some(up)]]
    /\ UNCHANGED <<now, chain, mvars, wvars, gvars, hvars>>

(* the loop ends (TestClient call, Celery task) and the next use of the
   service runs on a new one *)
NewLoop ==
    /\ \A r \in Reqs : req[r].pc \in {"idle", "returned", "raised"}
    /\ curLoop < MaxLoops
    /\ curLoop' = curLoop + 1
    /\ UNCHANGED <<qvars, subtensor, loop, wallet, handles, wvars, gvars, hvars>>

(* environment: time passes, the chain's value changes *)
Tick ==
    /\ now + TickStep <= MaxTime
    /\ now' = now + TickStep
    /\ UNCHANGED <<cache, chain, req, written, mvars, wvars, gvars, hvars>>

ChainUpdate(p, v) ==
    /\ chain[p] # v
    /\ chain' = [chain EXCEPT ![p] = v]
    /\ UNCHANGED <<cache, now, req, written, mvars, wvars, gvars, hvars>>

----------------------------------------------------------------------------
(* GET /tao_dividends/ (api/routes/dividends.py) over fetch_dividend,
   store_dividend_query and trigger_sentiment_analysis.  Request r runs
   call r of get_tao_dividends.  The trade flag is read only on line 72
   and is drawn there.  The requests of one behaviour arrive within one
   TTL window: the clock stands still in RouteSpec. *)

TaskStates == {"completed", "failed", "skipped"}
BrokerError == "kombu.exceptions.OperationalError"

(* HTTPException(500, detail=f"Error querying Tao dividends: {str(e)}") *)
HTTPError(e) == [status_code |-> 500, detail |-> e]

(* dividends_service.py 10-17: the defaults are resolved and the call of
   get_tao_dividends begins *)
FetchDividend(r, n, h) ==
    /\ http[r].pc = "none"
    /\ StartCall(r, Some(ResolveNetuid(n)), Some(ResolveHotkey(h)))

(* mutant: the row is always recorded as not cached *)
QueryRow_uncached(result) ==
    [netuid |-> result.netuid, hotkey |-> result.hotkey,
     dividend |-> result.dividend, cached |-> FALSE]

(* dividends_service.py 22-27: the keyword arguments of DividendQuery.create *)
QueryRow(result) ==
    [netuid |-> result.netuid, hotkey |-> result.hotkey,
     dividend |-> result.dividend, cached |-> result.cached]

(* lines 66-69 and dividends_service.py 19-30: the read returned, the
   insert into dividend_queries is awaited; when it raises the error is
   logged and the request goes on *)
StoreDividendQuery(r, ok) ==
    /\ http[r].pc = "none"
    /\ req[r].pc = "returned"
    /\ LET row == QueryRow(The(req[r].result))
       IN  /\ http' = [http EXCEPT ![r] =
                  [@ EXCEPT !.pc = "stored",
                            !.inserts = Append(@, row),
                            !.insertok = Some(ok)]]
           /\ dividend_queries' = IF ok THEN Append(dividend_queries, row)
                                        ELSE dividend_queries
    /\ UNCHANGED <<qvars, mvars, wvars, gvars, task_queue, task_done>>

(* mutant: the flag is never set *)
Response_untriggered(result, triggered) ==
    [netuid |-> result.netuid, hotkey |-> result.hotkey,
     dividend |-> result.dividend, cached |-> result.cached,
     stake_tx_triggered |-> FALSE]

(* line 72 with the result of trigger_sentiment_analysis *)
Response(result, triggered) ==
    [netuid |-> result.netuid, hotkey |-> result.hotkey,
     dividend |-> result.dividend, cached |-> result.cached,
     stake_tx_triggered |-> triggered]

(* dividends_service.py 34-37: stake_based_on_sentiment.delay(netuid, hotkey) *)
Invocation(r, netuid, hotkey) == [request |-> r, netuid |-> netuid, hotkey |-> hotkey]

(* lines 72-82 and dividends_service.py 32-39: with trade the task is
   handed to the broker, which takes it or raises; the route's except
   clause turns whatever is raised into a 500 *)
Respond(r, trade, accepted) ==
    /\ http[r].pc = "stored"
    /\ LET result == The(req[r].result)
           inv == Invocation(r, result.netuid, result.hotkey)
       IN  IF trade
           THEN IF accepted
                THEN /\ task_queue' = Append(task_queue, inv)
                     /\ http' = [http EXCEPT ![r] =
                            [@ EXCEPT !.pc = "done", !.trade = trade,
                                      !.delays = Append(@, inv),
                                      !.response = Some(Response(result, TRUE))]]
                ELSE /\ UNCHANGED task_queue
                     /\ http' = [http EXCEPT ![r] =
                            [@ EXCEPT !.pc = "error", !.trade = trade,
                                      !.delays = Append(@, inv),
                                      !.error = Some(HTTPError(BrokerError))]]
           ELSE /\ UNCHANGED task_queue
                /\ http' = [http EXCEPT ![r] =
                       [@ EXCEPT !.pc = "done", !.trade = trade,
                                 !.response = Some(Response(result, FALSE))]]
    /\ UNCHANGED <<qvars, mvars, wvars, gvars, dividend_queries, task_done>>

(* mutant: the failed read is recorded in the history all the same *)
FetchFailed_stores(r) ==
    /\ http[r].pc = "none"
    /\ req[r].pc = "raised"
    /\ LET row == [netuid |-> req[r].netuid, hotkey |-> req[r].hotkey,
                   dividend |-> 0, cached |-> FALSE]
       IN  /\ http' = [http EXCEPT ![r] =
                  [@ EXCEPT !.pc = "error", !.inserts = Append(@, row),
                            !.insertok = Some(TRUE),
                            !.error = Some(HTTPError(The(req[r].raised)))]]
           /\ dividend_queries' = Append(dividend_queries, row)
    /\ UNCHANGED <<qvars, mvars, wvars, gvars, task_queue, task_done>>

(* lines 66 and 77-82: fetch_dividend raised *)
FetchFailed(r) ==
    /\ http[r].pc = "none"
    /\ req[r].pc = "raised"
    /\ http' = [http EXCEPT ![r] =
           [@ EXCEPT !.pc = "error", !.error = Some(HTTPError(The(req[r].raised)))]]
    /\ UNCHANGED <<qvars, mvars, wvars, gvars, dividend_queries, task_queue, task_done>>

(* mutant: the run reports back into the response of its request *)
TaskRuns_reports(state) ==
    /\ task_queue # <<>>
    /\ task_queue' = Tail(task_queue)
    /\ task_done' = Append(task_done, [task |-> Head(task_queue), state |-> state])
    /\ http' = [http EXCEPT ![Head(task_queue).request].response =
                    Some([The(@) EXCEPT !.stake_tx_triggered = (state = "completed")])]
    /\ UNCHANGED <<qvars, mvars, wvars, gvars, dividend_queries>>

(* celery_worker.py 20-123 as the API process sees it: a worker process
   takes the oldest invocation from the broker and runs it to one of its
   states; the run itself, step by step, is WorkerSpec *)
TaskRuns(state) ==
    /\ task_queue # <<>>
    /\ task_queue' = Tail(task_queue)
    /\ task_done' = Append(task_done, [task |-> Head(task_queue), state |-> state])
    /\ UNCHANGED <<qvars, mvars, wvars, gvars, http, dividend_queries>>

RouteNext ==
    \/ \E r \in Reqs, a \in Args : FetchDividend(r, a[1], a[2])
    \/ \E r \in Reqs, up \in BOOLEAN, cok \in BOOLEAN : CacheGet(r, up, cok)
    \/ \E r \in Reqs, cok \in BOOLEAN : CloseDone(r, cok)
    \/ \E r \in Reqs, outcome \in {"ok"} \cup NetErrors : Query(r, outcome)
    \/ \E r \in Reqs, up \in BOOLEAN : CacheSet(r, up)
    \/ \E r \in Reqs, ok \in BOOLEAN : StoreDividendQuery(r, ok)
    \/ \E r \in Reqs, trade \in BOOLEAN, accepted \in BOOLEAN : Respond(r, trade, accepted)
    \/ \E r \in Reqs : FetchFailed(r)
    \/ \E state \in TaskStates : TaskRuns(state)
    \/ NewLoop
    \/ \E p \in Pairs, v \in Dividends : ChainUpdate(p, v)

RouteSpec == Init /\ [][RouteNext]_vars

----------------------------------------------------------------------------
(* Properties of the route, checked under RouteSpec *)

Responded(r) == http[r].pc = "done"
Errored(r) == http[r].pc = "error"

(* the invocations of request r the broker holds or a worker has run *)
Enqueued(r) ==
    {<<"queued", i>> : i \in {j \in DOMAIN task_queue : task_queue[j].request = r}}
    \cup {<<"run", i>> : i \in {j \in DOMAIN task_done : task_done[j].task.request = r}}

EnqueuedTask(e) == IF e[1] = "queued" THEN task_queue[e[2]] ELSE task_done[e[2]].task

(* C16: for every request that returns a response, stake_tx_triggered is
   the trade flag; with trade exactly one invocation is enqueued, with the
   resolved subnet and hotkey of the returned record; without trade none
   is. *)
C16_TriggeredIffTrade ==
    \A r \in Reqs : Responded(r) =>
        LET resp == The(http[r].response)
        IN  /\ resp.stake_tx_triggered = http[r].trade
            /\ resp.netuid = req[r].netuid /\ resp.hotkey = req[r].hotkey
            /\ http[r].trade =>
                  /\ http[r].delays = <<Invocation(r, resp.netuid, resp.hotkey)>>
                  /\ Cardinality(Enqueued(r)) = 1
                  /\ \A e \in Enqueued(r) :
                        EnqueuedTask(e) = Invocation(r, req[r].netuid, req[r].hotkey)
            /\ ~http[r].trade =>
                  /\ http[r].delays = <<>>
                  /\ Enqueued(r) = {}

C16_Witness ==
    \E r \in Reqs, o \in Reqs :
        /\ Responded(r) /\ http[r].trade
        /\ The(http[r].response).stake_tx_triggered
        /\ The(http[r].response).cached
        /\ Cardinality(Enqueued(r)) = 1
        /\ Responded(o) /\ ~http[o].trade
        /\ ~The(http[o].response).stake_tx_triggered

(* C17: a request ends in an error only when the read from the network
   failed (the query raised, or no handle could be built for it); a
   failure of the cache, of the insert into dividend_queries or of the
   hand-over to the broker never does. *)
C17_OnlyNetworkErrors ==
    \A r \in Reqs : Errored(r) =>
        /\ req[r].raised # None
        /\ The(req[r].raised) \in NetErrors \cup {ConstructError}
        /\ http[r].error = Some(HTTPError(The(req[r].raised)))

(* C18: every request whose read returned a record, from the cache or
   from the network, attempts exactly one insert into dividend_queries,
   with the subnet, hotkey, dividend and cached flag of that record, and
   no other request attempts one; whether or not the insert fails, the
   request goes on with the same record, which is the one it responds
   with, and the table holds the rows of the inserts that succeeded. *)
C18_OneHistoryInsert ==
    /\ \A r \in Reqs :
          /\ (req[r].pc # "returned" \/ http[r].pc = "none") =>
                http[r].inserts = <<>> /\ http[r].insertok = None
          /\ (req[r].pc = "returned" /\ http[r].pc # "none") =>
                /\ http[r].inserts = <<QueryRow(The(req[r].result))>>
                /\ http[r].insertok # None
                /\ http[r].inserts[1].netuid = req[r].netuid
                /\ http[r].inserts[1].hotkey = req[r].hotkey
                /\ http[r].inserts[1].cached = Hit(r)
                /\ Missed(r) => http[r].inserts[1].dividend = The(req[r].netval)
          /\ Responded(r) =>
                QueryRow(The(http[r].response)) = http[r].inserts[1]
          /\ (Errored(r) /\ http[r].inserts # <<>>) =>
                http[r].error = Some(HTTPError(BrokerError))
    /\ Len(dividend_queries) =
          Cardinality({r \in Reqs : http[r].insertok = Some(TRUE)})
    /\ \A r \in Reqs : http[r].insertok = Some(TRUE) =>
          \E i \in DOMAIN dividend_queries : dividend_queries[i] = http[r].inserts[1]

C18_Witness ==
    \E r \in Reqs, o \in Reqs :
        /\ Responded(r) /\ Hit(r)
        /\ http[r].insertok = Some(FALSE)
        /\ The(http[r].response).cached
        /\ Responded(o) /\ Missed(o)
        /\ http[o].insertok = Some(TRUE)
        /\ dividend_queries = <<QueryRow(The(req[o].result))>>

(* a response is the record of the read with the trade flag, and two
   requests with the same record and flag have the same response *)
C20_ResponseState ==
    /\ \A r \in Reqs : Responded(r) =>
          http[r].response = Some(Response(The(req[r].result), http[r].trade))
    /\ \A r \in Reqs, o \in Reqs :
          (Responded(r) /\ Responded(o) /\ req[r].result = req[o].result
              /\ http[r].trade = http[o].trade) =>
                http[r].response = http[o].response

(* a response, once produced, is not changed by any later step, the steps
   of the dispatched run included; and the step that produces it leaves
   the run still to be done *)
C20_ResponseStep ==
    \A r \in Reqs :
        /\ (Responded(r) \/ Errored(r)) => http'[r] = http[r]
        /\ (~Responded(r) /\ Responded(r)' /\ http'[r].trade) =>
              /\ task_queue' = Append(task_queue, http'[r].delays[1])
              /\ task_done' = task_done

(* C20: fire and forget.  The response of a request with trade is
   produced by the step that hands the invocation to the broker, before
   the run exists, and is the same whatever the run does afterwards. *)
C20_FireAndForget == [](C20_ResponseState) /\ [][C20_ResponseStep]_vars

C20_Witness ==
    \E r \in Reqs, o \in Reqs :
        /\ Responded(r) /\ Responded(o) /\ http[r].trade /\ http[o].trade
        /\ req[r].result = req[o].result
        /\ \E i \in DOMAIN task_done :
              task_done[i].task.request = r /\ task_done[i].state = "failed"
        /\ \E i \in DOMAIN task_done :
              task_done[i].task.request = o /\ task_done[i].state = "completed"

(* a request whose read failed has attempted no history write and handed
   nothing to the broker; a request that handed an invocation to the broker
   has a read that returned and a history write that was attempted; and
   there are as many history rows as writes that succeeded *)
C32_OrderState ==
    /\ \A r \in Reqs : req[r].pc = "raised" =>
          /\ http[r].inserts = <<>> /\ http[r].insertok = None
          /\ http[r].delays = <<>> /\ Enqueued(r) = {}
    /\ \A r \in Reqs : (http[r].delays # <<>> \/ Enqueued(r) # {}) =>
          /\ req[r].pc = "returned"
          /\ Len(http[r].inserts) = 1 /\ http[r].insertok # None
    /\ Len(dividend_queries)
          = Cardinality({r \in Reqs : http[r].insertok = Some(TRUE)})

(* the history write of a request is attempted in a step that begins with
   its read returned, and the invocation is handed over in a later step,
   one that begins with the write attempted *)
C32_OrderStep ==
    \A r \in Reqs :
        /\ http'[r].inserts # http[r].inserts =>
              /\ req[r].pc = "returned"
              /\ http'[r].delays = <<>> /\ Enqueued(r)' = {}
        /\ http'[r].delays # http[r].delays =>
              /\ http[r].insertok # None
              /\ http'[r].inserts = http[r].inserts

(* C32: within one request the order is dividend read, history write,
   dispatch.  A failed read leaves no dividend_queries row and no
   invocation, and an invocation is enqueued only after the history write
   of its request was attempted. *)
C32_ReadStoreDispatch == [](C32_OrderState) /\ [][C32_OrderStep]_vars

(* one request failed at its read, the other was dispatched after a history
   write that was attempted and failed *)
C32_Witness ==
    \E r \in Reqs, o \in Reqs :
        /\ req[r].pc = "raised" /\ Errored(r)
        /\ Responded(o) /\ http[o].trade /\ Enqueued(o) # {}
        /\ http[o].insertok = Some(FALSE)
        /\ dividend_queries = <<>>

----------------------------------------------------------------------------
(* The handle manager used by one caller, one operation after the other:
   _get_subtensor, reset_connections and close, each from the event loop
   then running.  An operation suspends only at the await of the handle's
   close(); its record is appended to mgr.log when it returns or raises. *)

MaxOps == 4         \* operations the caller performs on the manager

ManagerOps == {"reset_connections", "close"}

BeginOp(op) ==
    [NoOp EXCEPT !.op = op, !.ctx = curLoop,
                 !.before = subtensor, !.beforeLoop = loop]

EndOp(e, s, l) ==
    [pc |-> "idle", cur |-> NoOp,
     log |-> Append(mgr.log, [e EXCEPT !.after = s, !.afterLoop = l])]

(* mutant: a handle is built on every call *)
AcquireFinish_rebuilds(e, s, l, cok) ==
    IF cok
    THEN LET h == Len(handles) + 1
         IN  /\ handles' = Append(handles, NewHandle(e.ctx))
             /\ subtensor' = Some(h)
             /\ loop' = Some(e.ctx)
             /\ mgr' = EndOp([e EXCEPT !.built = Append(@, h),
                                       !.returned = Some(h)],
                             Some(h), Some(e.ctx))
    ELSE /\ subtensor' = None
         /\ loop' = l
         /\ UNCHANGED handles
         /\ mgr' = EndOp([e EXCEPT !.raised = Some(ConstructError)], None, l)

(* blockchain.py 28-33, entered with the fields holding s and l *)
AcquireFinish(e, s, l, cok) ==
    IF s = None
    THEN IF cok
         THEN LET h == Len(handles) + 1
              IN  /\ handles' = Append(handles, NewHandle(e.ctx))
                  /\ subtensor' = Some(h)
                  /\ loop' = Some(e.ctx)
                  /\ mgr' = EndOp([e EXCEPT !.built = Append(@, h),
                                            !.returned = Some(h)],
                                  Some(h), Some(e.ctx))
         ELSE /\ subtensor' = None
              /\ loop' = l
              /\ UNCHANGED handles
              /\ mgr' = EndOp([e EXCEPT !.raised = Some(ConstructError)], None, l)
    ELSE /\ subtensor' = s
         /\ loop' = l
         /\ UNCHANGED handles
         /\ mgr' = EndOp([e EXCEPT !.returned = s], s, l)

(* blockchain.py 19-26 and 37-40: _get_subtensor is called *)
Acquire(cok) ==
    /\ mgr.pc = "idle"
    /\ Len(mgr.log) < MaxOps
    /\ IF subtensor # None /\ loop # Some(curLoop)
       THEN /\ handles' = [handles EXCEPT ![The(subtensor)].closes = @ + 1]
            /\ mgr' = [mgr EXCEPT !.pc = "acquire_closing",
                                  !.cur = [BeginOp("acquire") EXCEPT
                                              !.closed = <<The(subtensor)>>]]
            /\ UNCHANGED <<subtensor, loop>>
       ELSE AcquireFinish(BeginOp("acquire"), subtensor, loop, cok)
    /\ UNCHANGED <<qvars, wallet, curLoop, wvars, hvars>>

(* blockchain.py 41-45 and 28-33: the close() awaited by _get_subtensor
   returned or raised *)
AcquireClosed(raised, cok) ==
    /\ mgr.pc = "acquire_closing"
    /\ AcquireFinish([mgr.cur EXCEPT !.closeRaised = raised], None, None, cok)
    /\ UNCHANGED <<qvars, wallet, curLoop, wvars, hvars>>

(* blockchain.py 35-40 and 236-238: reset_connections, or close which
   calls it; without a handle neither does anything *)
Reset(op) ==
    /\ mgr.pc = "idle"
    /\ Len(mgr.log) < MaxOps
    /\ IF subtensor # None
       THEN /\ handles' = [handles EXCEPT ![The(subtensor)].closes = @ + 1]
            /\ mgr' = [mgr EXCEPT !.pc = "reset_closing",
                                  !.cur = [BeginOp(op) EXCEPT
                                              !.closed = <<The(subtensor)>>]]
       ELSE /\ mgr' = EndOp(BeginOp(op), subtensor, loop)
            /\ UNCHANGED handles
    /\ UNCHANGED <<qvars, subtensor, loop, wallet, curLoop, wvars, hvars>>

(* mutant: a close() that raises leaves the fields as they were *)
ResetClosed_keeps(raised) ==
    /\ mgr.pc = "reset_closing"
    /\ subtensor' = IF raised THEN subtensor ELSE None
    /\ loop' = IF raised THEN loop ELSE None
    /\ mgr' = EndOp([mgr.cur EXCEPT !.closeRaised = raised], subtensor', loop')
    /\ UNCHANGED <<qvars, wallet, handles, curLoop, wvars, hvars>>

(* blockchain.py 41-45: close() returned, or raised and was logged; the
   finally clause clears the fields *)
ResetClosed(raised) ==
    /\ mgr.pc = "reset_closing"
    /\ subtensor' = None
    /\ loop' = None
    /\ mgr' = EndOp([mgr.cur EXCEPT !.closeRaised = raised], None, None)
    /\ UNCHANGED <<qvars, wallet, handles, curLoop, wvars, hvars>>

(* the caller's loop ends between two operations *)
ManagerNewLoop ==
    /\ mgr.pc = "idle"
    /\ NewLoop

ManagerNext ==
    \/ \E cok \in BOOLEAN : Acquire(cok)
    \/ \E raised \in BOOLEAN, cok \in BOOLEAN : AcquireClosed(raised, cok)
    \/ \E op \in ManagerOps : Reset(op)
    \/ \E raised \in BOOLEAN : ResetClosed(raised)
    \/ ManagerNewLoop

ManagerSpec == Init /\ [][ManagerNext]_vars

----------------------------------------------------------------------------
(* Properties of the handle manager in sequential use, checked under
   ManagerSpec *)

OpsDone == 1..Len(mgr.log)
IsAcquire(e) == e.op = "acquire"
IsReset(e) == e.op \in ManagerOps
OtherContext(e) == e.before # None /\ e.beforeLoop # Some(e.ctx)

(* C11: in sequential use, an acquire that follows an acquire from the
   same event loop returns the same handle, and closes and builds nothing;
   an acquire from a loop other than the one recorded for the handle
   closes the old handle exactly once, then builds exactly one handle,
   recorded for the calling loop, and returns it. *)
C11_SequentialAcquire ==
    /\ \A i \in OpsDone : i + 1 \in OpsDone =>
          LET e == mgr.log[i]
              f == mgr.log[i + 1]
          IN  (IsAcquire(e) /\ IsAcquire(f) /\ e.ctx = f.ctx /\ e.returned # None) =>
                  /\ f.returned = e.returned
                  /\ f.closed = <<>> /\ f.built = <<>>
                  /\ f.raised = None
    /\ \A i \in OpsDone :
          LET e == mgr.log[i]
          IN  (IsAcquire(e) /\ OtherContext(e)) =>
                  /\ e.closed = <<The(e.before)>>
                  /\ handles[The(e.before)].closes = 1
                  /\ e.raised = None =>
                        /\ Len(e.built) = 1
                        /\ e.built[1] # The(e.before)
                        /\ handles[e.built[1]].loop = e.ctx
                        /\ e.returned = Some(e.built[1])
                        /\ e.after = e.returned /\ e.afterLoop = Some(e.ctx)
                  /\ e.raised # None => e.built = <<>> /\ e.returned = None

C11_Witness ==
    /\ \E i \in OpsDone : i + 1 \in OpsDone
          /\ IsAcquire(mgr.log[i]) /\ IsAcquire(mgr.log[i + 1])
          /\ mgr.log[i].ctx = mgr.log[i + 1].ctx
          /\ mgr.log[i].returned # None
          /\ mgr.log[i + 1].returned = mgr.log[i].returned
    /\ \E i \in OpsDone :
          /\ IsAcquire(mgr.log[i]) /\ OtherContext(mgr.log[i])
          /\ mgr.log[i].returned # None
          /\ mgr.log[i].returned # mgr.log[i].before

(* C13: reset_connections and close are idempotent.  Called without a
   handle they close nothing and leave the manager as it was; called with
   a handle they close it exactly once and leave the manager without a
   handle and without a recorded loop, also when close() raised; a second
   call right after closes nothing and leaves the same state. *)
C13_ResetIdempotent ==
    /\ \A i \in OpsDone :
          LET e == mgr.log[i]
          IN  IsReset(e) =>
                  /\ e.raised = None
                  /\ e.before = None =>
                        /\ e.closed = <<>>
                        /\ e.after = None /\ e.afterLoop = e.beforeLoop
                  /\ e.before # None =>
                        /\ e.closed = <<The(e.before)>>
                        /\ handles[The(e.before)].closes = 1
                        /\ e.after = None /\ e.afterLoop = None
    /\ \A i \in OpsDone : i + 1 \in OpsDone =>
          LET e == mgr.log[i]
              f == mgr.log[i + 1]
          IN  (IsReset(e) /\ IsReset(f)) =>
                  /\ f.closed = <<>>
                  /\ f.after = e.after /\ f.afterLoop = e.afterLoop
    /\ (mgr.pc = "idle" /\ mgr.log # <<>> /\ IsReset(mgr.log[Len(mgr.log)])) =>
          subtensor = None /\ loop = None

C13_Witness ==
    \E i \in OpsDone : i + 1 \in OpsDone
        /\ IsReset(mgr.log[i]) /\ IsReset(mgr.log[i + 1])
        /\ mgr.log[i].op # mgr.log[i + 1].op
        /\ mgr.log[i].before # None /\ mgr.log[i].closeRaised
        /\ mgr.log[i + 1].closed = <<>>

----------------------------------------------------------------------------
(* stake_based_on_sentiment._process, one action per stretch between two
   awaits.  A task runs on a loop of its own (celery_worker.py 117-123),
   and the runs of one worker process follow one another. *)

(* mutant: the error row keeps the score of the run *)
Fail_keepsScore(q, err, at) ==
    [q EXCEPT !.raised = Some(err), !.raised_at = at,
              !.tx_details = [netuid |-> q.netuid, hotkey |-> q.hotkey,
                              sentiment_score |-> q.sentiment_score, amount |-> 0,
                              action |-> "error", status |-> "failed",
                              tx_hash |-> None, error |-> Some(err)]]

(* lines 90-105: the except clause takes the exception, builds the error
   row and asks for the database connection *)
Fail(q, err, at) ==
    [q EXCEPT !.raised = Some(err), !.raised_at = at,
              !.tx_details = [netuid |-> q.netuid, hotkey |-> q.hotkey,
                              sentiment_score |-> 0, amount |-> 0,
                              action |-> "error", status |-> "failed",
                              tx_hash |-> None, error |-> Some(err)]]

(* lines 111-114 *)
ErrorResult(q) ==
    [NoResult EXCEPT !.returned = TRUE, !.success = FALSE, !.error = q.raised]

(* mutant: the result leaves the hash out *)
SuccessResult_nohash(q) ==
    [NoResult EXCEPT !.returned = TRUE, !.success = TRUE,
                     !.sentiment_score = q.sentiment_score,
                     !.stake_amount = q.stake_amount]

(* lines 83-88 *)
SuccessResult(q) ==
    [NoResult EXCEPT !.returned = TRUE, !.success = TRUE,
                     !.sentiment_score = q.sentiment_score,
                     !.stake_amount = q.stake_amount,
                     !.tx_hash = q.tx_hash]

(* what a run of the task has done with the service, kept for every run
   the worker process has executed: the pair it was called for (line 20),
   the score it reached (line 37) and its calls of stake and unstake
   (lines 62, 65) *)
Summary(q) ==
    [netuid |-> q.netuid, hotkey |-> q.hotkey, scored |-> q.scored,
     sentiment_score |-> q.sentiment_score,
     calls |-> Len(q.stake_calls) + Len(q.unstake_calls),
     sent |-> q.handle # None]

Recorded(l, q) ==
    [i \in 1..q.id |-> IF i = q.id THEN Summary(q) ELSE l[i]]

(* mutant: the run does not reset the manager *)
StartRun_noreset(p) ==
    /\ wpc \in {"idle", "done"}
    /\ runs < MaxRuns
    /\ runs' = runs + 1
    /\ curLoop' = curLoop + 1
    /\ run' = [IdleRun EXCEPT !.id = runs + 1, !.netuid = p[1], !.hotkey = p[2],
                              !.loop = curLoop + 1]
    /\ wpc' = "tweets"
    /\ UNCHANGED <<gvars, hvars, qvars, subtensor, loop, wallet, handles, stake_transactions>>
    /\ ledger' = Recorded(ledger, run')

(* lines 117-118 and 27-33: a new loop, then reset_connections, which
   awaits close() when a handle is held; then the tweets are asked for *)
StartRun(p) ==
    /\ wpc \in {"idle", "done"}
    /\ runs < MaxRuns
    /\ runs' = runs + 1
    /\ curLoop' = curLoop + 1
    /\ run' = [IdleRun EXCEPT !.id = runs + 1, !.netuid = p[1], !.hotkey = p[2],
                              !.loop = curLoop + 1]
    /\ IF subtensor # None
       THEN /\ handles' = [handles EXCEPT ![The(subtensor)].closes = @ + 1]
            /\ wpc' = "reset_closing"
       ELSE /\ wpc' = "tweets"
            /\ UNCHANGED handles
    /\ UNCHANGED <<gvars, hvars, qvars, subtensor, loop, wallet, stake_transactions>>
    /\ ledger' = Recorded(ledger, run')

(* blockchain.py 41-45: close() returned or raised, the fields are cleared *)
ResetDone ==
    /\ wpc = "reset_closing"
    /\ subtensor' = None
    /\ loop' = None
    /\ wpc' = "tweets"
    /\ UNCHANGED <<gvars, hvars, qvars, wallet, handles, curLoop, run, runs, stake_transactions>>
    /\ ledger' = Recorded(ledger, run')

(* blockchain.py 128-168 (stake) and 178-218 (unstake) up to the await of
   the submission: the amount check, the handle, the wallet.  The handle
   field is None here (line 29 cleared it), so _get_subtensor builds one. *)
Submit(q, kind, amount, cok, wok) ==
    LET called == IF kind = "stake"
                  THEN [q EXCEPT !.stake_calls = Append(@, amount)]
                  ELSE [q EXCEPT !.unstake_calls = Append(@, amount)]
    IN  IF amount <= 0
        THEN /\ run' = Fail(called, "ValueError", kind)
             /\ wpc' = "err_connect"
             /\ UNCHANGED <<subtensor, loop, handles, wallet>>
        ELSE IF subtensor = None /\ ~cok
        THEN /\ run' = Fail(called, ConstructError, kind)
             /\ wpc' = "err_connect"
             /\ UNCHANGED <<subtensor, loop, handles, wallet>>
        ELSE /\ IF subtensor = None
                THEN /\ handles' = Append(handles, NewHandle(q.loop))
                     /\ subtensor' = Some(Len(handles) + 1)
                     /\ loop' = Some(q.loop)
                ELSE UNCHANGED <<subtensor, loop, handles>>
             /\ IF wallet = None /\ ~wok
                THEN /\ run' = Fail(called, WalletError, kind)
                     /\ wpc' = "err_connect"
                     /\ UNCHANGED wallet
                ELSE /\ wallet' = IF wallet = None THEN Some(q.loop) ELSE wallet
                     /\ run' = [called EXCEPT !.handle = subtensor']
                     /\ wpc' = IF kind = "stake" THEN "staking" ELSE "unstaking"

(* mutant: unstake is handed the signed amount *)
Decide_signed(q0, score, cok, wok) ==
    LET stake_amount == calculate_stake_amount(score)
        sentiment_score == IF score = None THEN 0 ELSE The(score)
        tx_details == [netuid |-> q0.netuid, hotkey |-> q0.hotkey,
                       sentiment_score |-> sentiment_score,
                       amount |-> Abs(stake_amount),
                       action |-> IF stake_amount > 0 THEN "stake" ELSE "unstake",
                       status |-> "pending", tx_hash |-> None, error |-> None]
        q == [q0 EXCEPT !.scored = TRUE, !.score = score,
                        !.sentiment_score = sentiment_score,
                        !.stake_amount = stake_amount,
                        !.tx_details = tx_details]
    IN  IF stake_amount > 0 /\ stake_amount # 0 /\ sentiment_score # 0
        THEN Submit(q, "stake", Abs(stake_amount), cok, wok)
        ELSE IF stake_amount < 0 /\ stake_amount # 0 /\ sentiment_score # 0
        THEN Submit(q, "unstake", stake_amount, cok, wok)
        ELSE /\ run' = [q EXCEPT !.tx_details.status = "skipped"]
             /\ wpc' = "connect"
             /\ UNCHANGED <<subtensor, loop, handles, wallet>>

(* mutant: a pair some earlier run has submitted for is not submitted for
   again *)
Decide_locked(q0, score, cok, wok) ==
    LET stake_amount == calculate_stake_amount(score)
        sentiment_score == IF score = None THEN 0 ELSE The(score)
        tx_details == [netuid |-> q0.netuid, hotkey |-> q0.hotkey,
                       sentiment_score |-> sentiment_score,
                       amount |-> Abs(stake_amount),
                       action |-> IF stake_amount > 0 THEN "stake" ELSE "unstake",
                       status |-> "pending", tx_hash |-> None, error |-> None]
        q == [q0 EXCEPT !.scored = TRUE, !.score = score,
                        !.sentiment_score = sentiment_score,
                        !.stake_amount = stake_amount,
                        !.tx_details = tx_details]
        held == \E i \in 1..Len(ledger) :
                    /\ i # q0.id
                    /\ ledger[i].netuid = q0.netuid /\ ledger[i].hotkey = q0.hotkey
                    /\ ledger[i].calls > 0
    IN  IF ~held /\ stake_amount > 0 /\ stake_amount # 0 /\ sentiment_score # 0
        THEN Submit(q, "stake", Abs(stake_amount), cok, wok)
        ELSE IF ~held /\ stake_amount < 0 /\ stake_amount # 0 /\ sentiment_score # 0
        THEN Submit(q, "unstake", Abs(stake_amount), cok, wok)
        ELSE /\ run' = [q EXCEPT !.tx_details.status = "skipped"]
             /\ wpc' = "connect"
             /\ UNCHANGED <<subtensor, loop, handles, wallet>>

(* lines 41-69: the amount, the row to record, and the branch taken *)
Decide(q0, score, cok, wok) ==
    LET stake_amount == calculate_stake_amount(score)
        sentiment_score == IF score = None THEN 0 ELSE The(score)
        tx_details == [netuid |-> q0.netuid, hotkey |-> q0.hotkey,
                       sentiment_score |-> sentiment_score,
                       amount |-> Abs(stake_amount),
                       action |-> IF stake_amount > 0 THEN "stake" ELSE "unstake",
                       status |-> "pending", tx_hash |-> None, error |-> None]
        q == [q0 EXCEPT !.scored = TRUE, !.score = score,
                        !.sentiment_score = sentiment_score,
                        !.stake_amount = stake_amount,
                        !.tx_details = tx_details]
    IN  IF stake_amount > 0 /\ stake_amount # 0 /\ sentiment_score # 0
        THEN Submit(q, "stake", Abs(stake_amount), cok, wok)
        ELSE IF stake_amount < 0 /\ stake_amount # 0 /\ sentiment_score # 0
        THEN Submit(q, "unstake", Abs(stake_amount), cok, wok)
        ELSE /\ run' = [q EXCEPT !.tx_details.status = "skipped"]
             /\ wpc' = "connect"
             /\ UNCHANGED <<subtensor, loop, handles, wallet>>

(* lines 33-37: get_tweets answers.  No tweets: analyze_sentiment returns
   0 at once; otherwise the model is asked *)
Tweets(outcome, cok, wok) ==
    /\ wpc = "tweets"
    /\ IF ~outcome.ok
       THEN /\ run' = Fail(run, TweetsError, "tweets")
            /\ wpc' = "err_connect"
            /\ UNCHANGED <<subtensor, loop, handles, wallet>>
       ELSE IF outcome.val = <<>>
       THEN Decide(run, Some(0), cok, wok)
       ELSE /\ wpc' = "analyze"
            /\ UNCHANGED <<run, subtensor, loop, handles, wallet>>
    /\ UNCHANGED <<gvars, hvars, qvars, curLoop, runs, stake_transactions>>
    /\ ledger' = Recorded(ledger, run')

(* tweet_sentiment.py 112-135 and lines 37-69: the model answers *)
Analyze(outcome, cok, wok) ==
    /\ wpc = "analyze"
    /\ IF ~outcome.ok
       THEN /\ run' = Fail(run, ModelError, "model")
            /\ wpc' = "err_connect"
            /\ UNCHANGED <<subtensor, loop, handles, wallet>>
       ELSE Decide([run EXCEPT !.response = Some(outcome.val)],
                   parse_score(outcome.val), cok, wok)
    /\ UNCHANGED <<gvars, hvars, qvars, curLoop, runs, stake_transactions>>
    /\ ledger' = Recorded(ledger, run')

(* lines 62/65 and 71-79: the submission returned a value or raised *)
Submitted(outcome) ==
    /\ wpc \in {"staking", "unstaking"}
    /\ IF ~outcome.ok
       THEN /\ run' = Fail(run, StakeError, IF wpc = "staking" THEN "stake" ELSE "unstake")
            /\ wpc' = "err_connect"
       ELSE /\ run' = [run EXCEPT
                 !.tx_hash = outcome.val,
                 !.returned_hash = outcome.val,
                 !.tx_details = IF TruthyHash(outcome.val)
                                THEN [@ EXCEPT !.tx_hash = outcome.val, !.status = "completed"]
                                ELSE @]
            /\ wpc' = "connect"
    /\ UNCHANGED <<gvars, hvars, qvars, mvars, runs, stake_transactions>>
    /\ ledger' = Recorded(ledger, run')

(* line 79 *)
Connect(ok) ==
    /\ wpc = "connect"
    /\ IF ok
       THEN /\ wpc' = "insert"
            /\ run' = [run EXCEPT !.inserts = @ + 1]
       ELSE /\ run' = Fail(run, DbErrors.connect, "connect")
            /\ wpc' = "err_connect"
    /\ UNCHANGED <<gvars, hvars, qvars, mvars, runs, stake_transactions>>
    /\ ledger' = Recorded(ledger, run')

(* mutant: the row takes the hash from the local tx_hash *)
Row_localhash(q) ==
    [run |-> q.id, netuid |-> q.tx_details.netuid, hotkey |-> q.tx_details.hotkey,
     sentiment_score |-> q.tx_details.sentiment_score,
     amount |-> q.tx_details.amount, action |-> q.tx_details.action,
     status |-> q.tx_details.status, tx_hash |-> q.tx_hash,
     error |-> q.tx_details.error]

(* StakeTransaction.create: one row, with the number of the run that wrote it *)
Row(q) == [run |-> q.id, netuid |-> q.tx_details.netuid, hotkey |-> q.tx_details.hotkey,
           sentiment_score |-> q.tx_details.sentiment_score,
           amount |-> q.tx_details.amount, action |-> q.tx_details.action,
           status |-> q.tx_details.status, tx_hash |-> q.tx_details.tx_hash,
           error |-> q.tx_details.error]

(* line 80 *)
Insert(ok) ==
    /\ wpc = "insert"
    /\ IF ok
       THEN /\ stake_transactions' = Append(stake_transactions, Row(run))
            /\ wpc' = "disconnect"
            /\ UNCHANGED run
       ELSE /\ run' = Fail(run, DbErrors.insert, "insert")
            /\ wpc' = "err_connect"
            /\ UNCHANGED stake_transactions
    /\ UNCHANGED <<gvars, hvars, qvars, mvars, runs>>
    /\ ledger' = Recorded(ledger, run')

(* lines 81-88 *)
Disconnect(ok) ==
    /\ wpc = "disconnect"
    /\ IF ok
       THEN /\ run' = [run EXCEPT !.result = SuccessResult(run)]
            /\ wpc' = "done"
       ELSE /\ run' = Fail(run, DbErrors.disconnect, "disconnect")
            /\ wpc' = "err_connect"
    /\ UNCHANGED <<gvars, hvars, qvars, mvars, runs, stake_transactions>>
    /\ ledger' = Recorded(ledger, run')

(* lines 103-114: the error row; a failure here is logged and the result
   is returned *)
ErrConnect(ok) ==
    /\ wpc = "err_connect"
    /\ IF ok
       THEN /\ wpc' = "err_insert"
            /\ run' = [run EXCEPT !.err_inserts = @ + 1]
       ELSE /\ run' = [run EXCEPT !.result = ErrorResult(run)]
            /\ wpc' = "done"
    /\ UNCHANGED <<gvars, hvars, qvars, mvars, runs, stake_transactions>>
    /\ ledger' = Recorded(ledger, run')

(* mutant: a failed write of the error row is tried again *)
ErrInsert_retry(ok) ==
    /\ wpc = "err_insert"
    /\ IF ok
       THEN /\ stake_transactions' = Append(stake_transactions, Row(run))
            /\ wpc' = "err_disconnect"
            /\ run' = [run EXCEPT !.err_written = TRUE]
       ELSE /\ run' = run
            /\ wpc' = "err_connect"
            /\ UNCHANGED stake_transactions
    /\ UNCHANGED <<gvars, hvars, qvars, mvars, runs>>
    /\ ledger' = Recorded(ledger, run')

ErrInsert(ok) ==
    /\ wpc = "err_insert"
    /\ IF ok
       THEN /\ stake_transactions' = Append(stake_transactions, Row(run))
            /\ wpc' = "err_disconnect"
            /\ run' = [run EXCEPT !.err_written = TRUE]
       ELSE /\ run' = [run EXCEPT !.result = ErrorResult(run)]
            /\ wpc' = "done"
            /\ UNCHANGED stake_transactions
    /\ UNCHANGED <<gvars, hvars, qvars, mvars, runs>>
    /\ ledger' = Recorded(ledger, run')

ErrDisconnect(ok) ==
    /\ wpc = "err_disconnect"
    /\ run' = [run EXCEPT !.result = ErrorResult(run)]
    /\ wpc' = "done"
    /\ UNCHANGED <<gvars, hvars, qvars, mvars, runs, stake_transactions>>
    /\ ledger' = Recorded(ledger, run')

WorkerNext ==
    \/ \E p \in Pairs : StartRun(p)
    \/ ResetDone
    \/ \E outcome \in Outcomes(TweetLists), cok \in BOOLEAN, wok \in BOOLEAN :
          Tweets(outcome, cok, wok)
    \/ \E outcome \in Outcomes(Responses), cok \in BOOLEAN, wok \in BOOLEAN :
          Analyze(outcome, cok, wok)
    \/ \E outcome \in Outcomes(StakeReturns) : Submitted(outcome)
    \/ \E ok \in BOOLEAN : Connect(ok)
    \/ \E ok \in BOOLEAN : Insert(ok)
    \/ \E ok \in BOOLEAN : Disconnect(ok)
    \/ \E ok \in BOOLEAN : ErrConnect(ok)
    \/ \E ok \in BOOLEAN : ErrInsert(ok)
    \/ \E ok \in BOOLEAN : ErrDisconnect(ok)

WorkerSpec == Init /\ [][WorkerNext]_vars

(* loop.run_until_complete(_process()) (line 121) runs the coroutine until
   it returns, and every collaborator call returns or raises: a run that
   can take a step takes one *)
RunStep ==
    \/ ResetDone
    \/ \E outcome \in Outcomes(TweetLists), cok \in BOOLEAN, wok \in BOOLEAN :
          Tweets(outcome, cok, wok)
    \/ \E outcome \in Outcomes(Responses), cok \in BOOLEAN, wok \in BOOLEAN :
          Analyze(outcome, cok, wok)
    \/ \E outcome \in Outcomes(StakeReturns) : Submitted(outcome)
    \/ \E ok \in BOOLEAN : Connect(ok)
    \/ \E ok \in BOOLEAN : Insert(ok)
    \/ \E ok \in BOOLEAN : Disconnect(ok)
    \/ \E ok \in BOOLEAN : ErrConnect(ok)
    \/ \E ok \in BOOLEAN : ErrInsert(ok)
    \/ \E ok \in BOOLEAN : ErrDisconnect(ok)

WorkerFairSpec == Init /\ [][WorkerNext]_vars /\ WF_vars(RunStep)


----------------------------------------------------------------------------
(* Properties of the staking task, checked under WorkerSpec *)

RowsOf(id) == {i \in DOMAIN stake_transactions : stake_transactions[i].run = id}

Finished == wpc = "done"

(* C6: every run, whatever fails, ends with exactly one persisted
   StakeTransaction row: never none, never two. *)
C6_ExactlyOneRecord ==
    Finished => Cardinality(RowsOf(run.id)) = 1

(* C7: tie-break.  A positive score calls stake() exactly once with the
   strictly positive absolute amount and never unstake(); a negative score
   calls unstake() exactly once with the strictly positive absolute amount
   and never stake(); a score of 0 or None calls neither, the row of the
   run has status skipped, and no hash is recorded. *)
C7_TieBreak ==
    run.scored =>
        LET amount == Abs(calculate_stake_amount(run.score))
            positive == run.score # None /\ The(run.score) > 0
            negative == run.score # None /\ The(run.score) < 0
        IN  /\ positive => /\ run.stake_calls = <<amount>>
                           /\ amount > 0
                           /\ run.unstake_calls = <<>>
            /\ negative => /\ run.unstake_calls = <<amount>>
                           /\ amount > 0
                           /\ run.stake_calls = <<>>
            /\ ~positive /\ ~negative =>
                   /\ run.stake_calls = <<>> /\ run.unstake_calls = <<>>
                   /\ run.stake_amount = 0
                   /\ run.tx_hash = None
                   /\ run.raised = None => run.tx_details.status = "skipped"
                   /\ \A i \in RowsOf(run.id) :
                         /\ stake_transactions[i].tx_hash = None
                         /\ stake_transactions[i].action # "error"
                               => stake_transactions[i].status = "skipped"
                   /\ wpc \notin {"staking", "unstaking"}

C7_Witness ==
    /\ Finished
    /\ run.score # None /\ The(run.score) < 0
    /\ run.unstake_calls = <<Abs(The(run.score))>>
    /\ run.returned_hash = Some("0xhash")

ContainedAt == {"tweets", "model", "stake", "unstake"}

ErrorRow(q) ==
    [run |-> q.id, netuid |-> q.netuid, hotkey |-> q.hotkey, sentiment_score |-> 0,
     amount |-> 0, action |-> "error", status |-> "failed", tx_hash |-> None,
     error |-> q.raised]

(* C8 as stated: when the sentiment source, the sentiment model or the
   stake/unstake submission raises, the run persists a row with action
   "error", amount 0, score 0, status "failed" and the error text for its
   subnet and hotkey, and returns success = false with that text. *)
C8_ErrorRowPersisted ==
    (Finished /\ run.raised_at \in ContainedAt) =>
        /\ \E i \in RowsOf(run.id) : stake_transactions[i] = ErrorRow(run)
        /\ run.result.returned /\ ~run.result.success
        /\ run.result.error = run.raised

(* C8 amended: when the sentiment source, the sentiment model or the
   stake/unstake submission raises, the run builds that error row, tries
   to write it once, has persisted exactly it when the connect and the
   insert of that write succeeded and nothing when they did not, and
   returns success = false with the error text. *)
C8_ErrorRowAttempted ==
    (Finished /\ run.raised_at \in ContainedAt) =>
        /\ run.raised # None
        /\ Row(run) = ErrorRow(run)
        /\ run.err_inserts <= 1
        /\ run.err_written =>
              \E i \in RowsOf(run.id) :
                  /\ stake_transactions[i] = ErrorRow(run)
                  /\ RowsOf(run.id) = {i}
        /\ ~run.err_written => RowsOf(run.id) = {}
        /\ run.result.returned /\ ~run.result.success
        /\ run.result.error = run.raised

C8_Witness ==
    /\ Finished
    /\ run.raised_at = "stake"
    /\ run.raised = Some(StakeError)
    /\ \E i \in RowsOf(run.id) : stake_transactions[i] = ErrorRow(run)

(* C9: no exception leaves _process.  Every run that has begun can take
   its next step until it has returned a result value, whatever fails,
   the write of the error row included; and persistence is never retried:
   at most one insert of the normal row and at most one of the error row
   are attempted. *)
C9_NoEscapeNoRetry ==
    /\ run.inserts <= 1
    /\ run.err_inserts <= 1
    /\ wpc \notin {"idle", "done"} => ENABLED WorkerNext
    /\ Finished =>
          /\ run.result.returned
          /\ run.result.success <=> run.raised = None
          /\ ~run.result.success => run.result.error = run.raised
    /\ ~Finished => ~run.result.returned

C9_Witness ==
    /\ Finished
    /\ run.raised # None
    /\ run.err_inserts = 1
    /\ ~run.err_written
    /\ run.result.returned

(* C10: every persisted row has a terminal status, completed, failed or
   skipped; none is persisted as pending, whatever stake/unstake return. *)
C10_NoPendingRow ==
    \A i \in DOMAIN stake_transactions :
        stake_transactions[i].status \in {"completed", "failed", "skipped"}

Sign(x) == IF x > 0 THEN 1 ELSE IF x < 0 THEN -1 ELSE 0

(* the scores the sentiment model is asked to answer with *)
ScoreRange == -100..100

(* C15: for every integer score from -100 to 100 the stake amount is 0.01
   times the score (the score itself, in hundredths of a TAO), so it has
   the sign of the score and is 0 exactly for the score 0; for no score
   (None) it is 0; and every run that has scored holds the amount of its
   score, computed without touching the rows, the handle or the wallet. *)
C15_StakeAmount ==
    /\ \A s \in ScoreRange :
          /\ calculate_stake_amount(Some(s)) = STAKE_PER_POINT * s
          /\ Sign(calculate_stake_amount(Some(s))) = Sign(s)
          /\ calculate_stake_amount(Some(s)) = 0 <=> s = 0
    /\ calculate_stake_amount(None) = 0
    /\ run.scored =>
          /\ run.stake_amount = calculate_stake_amount(run.score)
          /\ run.score # None => run.stake_amount = STAKE_PER_POINT * The(run.score)
          /\ run.score = None => run.stake_amount = 0

C15_Witness ==
    /\ run.scored
    /\ run.score = Some(-1)
    /\ run.stake_amount = -STAKE_PER_POINT

(* C19: a run with a positive score whose stake submission returned a hash
   and whose write of the row went through has persisted exactly one row,
   with action "stake", amount 0.01 times the score, the score as
   sentiment score, status "completed" and the returned hash, and its
   result reports success with the score, the amount and that hash. *)
C19_CompletedStake ==
    LET positive == run.scored /\ run.score # None /\ The(run.score) > 0
        hashed == TruthyHash(run.returned_hash)
        row == [run |-> run.id, netuid |-> run.netuid, hotkey |-> run.hotkey,
                sentiment_score |-> The(run.score),
                amount |-> STAKE_PER_POINT * The(run.score),
                action |-> "stake", status |-> "completed",
                tx_hash |-> run.returned_hash, error |-> None]
    IN  /\ (positive /\ hashed /\ wpc \in {"disconnect", "done"} /\ run.inserts = 1
                 /\ run.raised_at \notin {"connect", "insert"}) =>
              \E i \in RowsOf(run.id) : stake_transactions[i] = row
        /\ (positive /\ hashed /\ Finished /\ run.raised = None) =>
              /\ \E i \in RowsOf(run.id) :
                    stake_transactions[i] = row /\ RowsOf(run.id) = {i}
              /\ run.result = [returned |-> TRUE, success |-> TRUE,
                               sentiment_score |-> The(run.score),
                               stake_amount |-> STAKE_PER_POINT * The(run.score),
                               tx_hash |-> run.returned_hash, error |-> None]

C19_Witness ==
    /\ Finished
    /\ run.score = Some(1)
    /\ run.returned_hash = Some("0xhash")
    /\ run.raised = None
    /\ run.result.success /\ run.result.tx_hash = Some("0xhash")

(* C22: in every run the reset comes before any network call: once the
   run is past it, every handle built on an earlier loop has been closed,
   the manager holds no handle or one built in this run, and a stake or
   unstake in progress runs on a handle built in this run on the run's
   own loop. *)
C22_ResetFirst ==
    /\ wpc = "reset_closing" =>
          run.stake_calls = <<>> /\ run.unstake_calls = <<>> /\ run.handle = None
    /\ wpc \notin {"idle", "reset_closing"} =>
          /\ \A h \in DOMAIN handles :
                handles[h].loop # run.loop => handles[h].closes = 1
          /\ subtensor # None => handles[The(subtensor)].loop = run.loop
    /\ wpc \in {"staking", "unstaking"} =>
          /\ run.handle # None
          /\ run.handle = subtensor
          /\ handles[The(run.handle)].loop = run.loop
          /\ handles[The(run.handle)].closes = 0

C22_Witness ==
    /\ wpc = "staking"
    /\ run.id = 2
    /\ run.handle = Some(2)
    /\ handles[1].loop # run.loop /\ handles[1].closes = 1

(* C23: a model response that cannot be parsed gives no score; the run
   then calls neither stake nor unstake and does not fail for it, its row
   has sentiment score 0, amount 0, status skipped and no hash, and when
   the row is written the result reports success. *)
C23_UnparsedIsSkipped ==
    (run.scored /\ run.score = None) =>
        /\ run.response # None /\ parse_score(The(run.response)) = None
        /\ run.stake_calls = <<>> /\ run.unstake_calls = <<>>
        /\ run.sentiment_score = 0 /\ run.stake_amount = 0
        /\ run.raised # None => run.raised_at \in {"connect", "insert", "disconnect"}
        /\ run.raised = None =>
              /\ run.tx_details.sentiment_score = 0 /\ run.tx_details.amount = 0
              /\ run.tx_details.status = "skipped" /\ run.tx_details.tx_hash = None
        /\ \A i \in RowsOf(run.id) : stake_transactions[i].action # "error" =>
              /\ stake_transactions[i].sentiment_score = 0
              /\ stake_transactions[i].amount = 0
              /\ stake_transactions[i].status = "skipped"
              /\ stake_transactions[i].tx_hash = None
        /\ (Finished /\ run.raised = None) =>
              /\ Cardinality(RowsOf(run.id)) = 1
              /\ run.result.returned /\ run.result.success
              /\ run.result.sentiment_score = 0 /\ run.result.stake_amount = 0
              /\ run.result.tx_hash = None

C23_Witness ==
    /\ Finished
    /\ run.scored /\ run.score = None
    /\ run.result.success
    /\ \E i \in RowsOf(run.id) : stake_transactions[i].status = "skipped"

(* the score the parsing rule describes: the integer the whole response
   is, else the first integer, with its sign, after an "is:" marker *)
FirstIntegerAfterMarker(resp) ==
    LET starts == {i \in 1..Len(resp) : resp[i].t = "is:"}
        IntAt(j) == IF j <= Len(resp) /\ resp[j].t = "num" THEN Some(resp[j].v)
                    ELSE IF j + 1 <= Len(resp) /\ resp[j].t = "-" /\ resp[j + 1].t = "num"
                    THEN Some(-resp[j + 1].v)
                    ELSE None
        After(i) == LET rest == {j \in (i + 1)..Len(resp) : resp[j].t # "sp"}
                    IN  IF rest = {} THEN None
                        ELSE IntAt(CHOOSE j \in rest : \A k \in rest : j <= k)
        hits == {i \in starts : After(i) # None}
    IN  IF hits = {} THEN None
        ELSE After(CHOOSE i \in hits : \A k \in hits : i <= k)

(* C24: the score of a response is the integer the whole response parses
   to; otherwise the first integer after an "is:" marker, negative ones
   included; otherwise none. *)
C24_ScoreParsing ==
    (run.scored /\ run.response # None) =>
        run.score = IF int_of(The(run.response)) # None
                    THEN int_of(The(run.response))
                    ELSE FirstIntegerAfterMarker(The(run.response))

(* C25: in every persisted row the status is completed exactly when a
   hash is present, so skipped and failed rows carry no hash; and only
   failed rows carry an error message. *)
C25_StatusAndHash ==
    \A i \in DOMAIN stake_transactions :
        LET row == stake_transactions[i]
        IN  /\ row.status = "completed" <=> row.tx_hash # None
            /\ row.tx_hash # None => TruthyHash(row.tx_hash)
            /\ row.status \in {"skipped", "failed"} => row.tx_hash = None
            /\ row.error # None => row.status = "failed"
            /\ row.status = "failed" => row.error # None /\ row.action = "error"

C25_Witness ==
    /\ \E i \in DOMAIN stake_transactions :
          /\ stake_transactions[i].status = "completed"
          /\ stake_transactions[i].tx_hash = Some("0xhash")
    /\ \E i \in DOMAIN stake_transactions :
          /\ stake_transactions[i].status = "failed"
          /\ stake_transactions[i].error = Some(StakeError)

(* C26: a run in which stake() or unstake() returned a hash ends with a
   persisted row of status completed carrying that hash, and with no row
   recorded as failed. *)
C26_ObservedOutcomeRecorded ==
    (Finished /\ TruthyHash(run.returned_hash)) =>
        /\ \E i \in RowsOf(run.id) :
              /\ stake_transactions[i].status = "completed"
              /\ stake_transactions[i].tx_hash = run.returned_hash
        /\ \A i \in RowsOf(run.id) : stake_transactions[i].status # "failed"

(* C27: the amount of a persisted row is the signed amount of the
   decision, positive for a stake and negative for an unstake, and equal
   to the stake_amount of the run's result. *)
C27_SignedAmountPersisted ==
    (Finished /\ run.raised = None) =>
        \A i \in RowsOf(run.id) :
            /\ stake_transactions[i].amount = calculate_stake_amount(run.score)
            /\ stake_transactions[i].amount = run.result.stake_amount
            /\ stake_transactions[i].action = "stake" => stake_transactions[i].amount > 0
            /\ (stake_transactions[i].action = "unstake"
                  /\ stake_transactions[i].status # "skipped") =>
                  stake_transactions[i].amount < 0

(* the rows of the run in progress whose action is the call the run made *)
ActionOfCalledRows ==
    \A i \in RowsOf(run.id) :
        stake_transactions[i].status # "skipped" =>
            /\ stake_transactions[i].action = "stake" => run.stake_calls # <<>>
            /\ stake_transactions[i].action = "unstake" => run.unstake_calls # <<>>

(* C31: the action of a persisted row names what its run did: "stake" only
   when the run called stake(), "unstake" only when it called unstake(),
   and a skipped run, which called neither, is recorded with neither
   action. *)
C31_ActionNamesCall ==
    \A i \in RowsOf(run.id) :
        /\ stake_transactions[i].action = "stake" => run.stake_calls # <<>>
        /\ stake_transactions[i].action = "unstake" => run.unstake_calls # <<>>
        /\ stake_transactions[i].status = "skipped" =>
              stake_transactions[i].action \notin {"stake", "unstake"}

(* a submission under way uses the connection built after the reset of its
   own run, on the loop of that run *)
ConnectionOfGeneration ==
    wpc \in {"staking", "unstaking"} =>
        /\ run.handle = subtensor /\ subtensor # None
        /\ handles[The(subtensor)].loop = run.loop
        /\ handles[The(subtensor)].closes = 0

(* C34: reset discards the wallet with the connection: a submission under
   way, which follows the reset at the start of its run, uses a wallet
   created in that run and not one created under an earlier generation. *)
C34_WalletOfGeneration ==
    wpc \in {"staking", "unstaking"} => wallet = Some(run.loop)

(* C28: the worker does not deduplicate by pair.  Every run the worker
   process has executed is on record; a run that reached a non-zero score
   has called stake or unstake exactly once, whatever earlier runs did for
   the same pair, a run with score 0 or not yet scored has called neither,
   and so the number of submissions equals the number of runs with a
   non-zero score. *)
C28_NoDeduplication ==
    /\ Len(ledger) = runs
    /\ \A i \in 1..Len(ledger) :
          ledger[i].calls = IF ledger[i].scored /\ ledger[i].sentiment_score # 0
                            THEN 1 ELSE 0
    /\ Cardinality({i \in 1..Len(ledger) : ledger[i].calls > 0})
          = Cardinality({i \in 1..Len(ledger) :
                            ledger[i].scored /\ ledger[i].sentiment_score # 0})

(* two runs for one pair, each with its own submission on the way or done *)
C28_Witness ==
    \E i, j \in 1..Len(ledger) :
        /\ i < j
        /\ ledger[i].netuid = ledger[j].netuid /\ ledger[i].hotkey = ledger[j].hotkey
        /\ ledger[i].calls = 1 /\ ledger[i].sent
        /\ ledger[j].calls = 1 /\ ledger[j].sent
        /\ \E a, b \in 1..Len(stake_transactions) :
              /\ stake_transactions[a].run = i /\ stake_transactions[a].status = "completed"
              /\ stake_transactions[b].run = j /\ stake_transactions[b].status = "completed"

Running == wpc \notin {"idle", "done"}

(* every run that has begun returns a result *)
RunTerminates == Running ~> Finished

(* C29: under fair scheduling, with every collaborator call returning or
   raising, every run that has begun finishes with its transaction in one
   of the states completed, failed or skipped; none ends in pending and
   none stops between two steps. *)
C29_EndsTerminal ==
    Running ~> (Finished /\ run.tx_details.status \in TaskStates)

----------------------------------------------------------------------------
(* Properties of the dividend query, checked under Spec *)

(* C1: a call that finds a non-empty entry under the key of its pair
   returns the stored record with cached = true, and in that call no
   handle is acquired, no network query is issued and nothing is written
   to the cache. *)
C1_HitServedFromCache ==
    \A r \in Reqs : Hit(r) =>
        /\ req[r].pc = "returned"
        /\ req[r].raised = None
        /\ req[r].result # None
        /\ The(req[r].result).cached = TRUE
        /\ json_dumps([The(req[r].result) EXCEPT !.cached = FALSE]) = The(req[r].cached_data)
        /\ The(req[r].result).netuid = req[r].netuid
        /\ The(req[r].result).hotkey = req[r].hotkey
        /\ req[r].acquires = 0 /\ req[r].handle = None
        /\ req[r].queries = 0
        /\ req[r].sets = 0

(* a hit has returned on an event loop other than the one the handle
   belongs to: an acquire here would have replaced the handle *)
C1_Witness ==
    \E r \in Reqs :
        /\ Hit(r) /\ req[r].pc = "returned" /\ req[r].result # None
        /\ loop # None /\ The(loop) # req[r].loop

(* the miss path as the fields of a call show it *)
C2_MissState ==
    \A r \in Reqs : Missed(r) =>
        /\ req[r].acquires = 1
        /\ req[r].queries <= 1
        /\ req[r].pc \in {"cache_set", "returned"} =>
              /\ req[r].queries = 1
              /\ req[r].handle # None
              /\ req[r].netval # None
              /\ req[r].raised = None
              /\ req[r].result = Some([netuid |-> req[r].netuid, hotkey |-> req[r].hotkey,
                                       dividend |-> The(req[r].netval), cached |-> FALSE])
        /\ req[r].netval # None => req[r].pc \in {"cache_set", "returned"}
        /\ req[r].pc = "returned" => req[r].sets = 1

(* the query reads the pair's value; a write-back that succeeds leaves the
   record under the key, to expire CACHE_TTL from now *)
C2_MissStep ==
    \A r \in Reqs :
        /\ (req[r].pc = "query" /\ req'[r].pc = "cache_set")
              => req'[r].netval = Some(chain[PairOf(r)])
        /\ (req[r].pc = "cache_set" /\ req'[r].pc = "returned" /\ req'[r].setok = Some(TRUE))
              => /\ req[r].key = generate_key("tao_dividends", req[r].netuid, req[r].hotkey)
                 /\ cache'[req[r].key] =
                       [present |-> TRUE, value |-> json_dumps(The(req'[r].result)),
                        expires |-> now + CACHE_TTL]
                 /\ json_loads(cache'[req[r].key].value) = The(req'[r].result)

(* C2: a call that misses the cache asks for the handle once and queries
   the network once for its pair; when the network returns a value the
   call returns the record of that value with cached = false, and when
   the write-back succeeds the cache holds that record under the pair's
   key with the configured TTL as the call returns. *)
C2_MissQueriesOnceAndWritesBack == [](C2_MissState) /\ [][C2_MissStep]_vars

C2_Witness ==
    \E r \in Reqs : /\ Missed(r) /\ req[r].pc = "returned" /\ req[r].setok = Some(TRUE)
                    /\ The(req[r].result).dividend > 0
                    /\ RedisGet(req[r].key) = Some(json_dumps(The(req[r].result)))


(* the entry the last successful write-back left under key is still alive *)
Live(key) == written[key].any /\ now < written[key].at + CACHE_TTL

ReadStep(r) == req[r].pc = "cache_get" /\ req'[r].pc # "cache_get"

ServedFromEntry(r) ==
    /\ Truthy(req'[r].cached_data)
    /\ req'[r].pc = "returned"
    /\ req'[r].result = Some([written[req[r].key].rec EXCEPT !.cached = TRUE])
    /\ The(req'[r].result).netuid = req[r].netuid
    /\ The(req'[r].result).hotkey = req[r].hotkey

GoesToNetwork(r) ==
    /\ ~Truthy(req'[r].cached_data)
    /\ req'[r].acquires = 1
    /\ req'[r].pc \in {"closing", "query", "raised"}
    /\ req'[r].result = None

FreshFromNetwork ==
    /\ \A r \in Reqs : (Missed(r) /\ req[r].pc = "returned") =>
          /\ req[r].result # None
          /\ The(req[r].result).dividend = The(req[r].netval)
          /\ The(req[r].result).cached = FALSE
    /\ \A r \in Reqs : Hit(r) => req[r].queries = 0

QueriedValueIsChainValue ==
    \A r \in Reqs : (req[r].pc = "query" /\ req'[r].pc = "cache_set")
                       => req'[r].netval = Some(chain[PairOf(r)])

(* every read is served from a live entry, and only from one *)
C3_RoundTripStep ==
    \A r \in Reqs : ReadStep(r) =>
        /\ Live(req[r].key) => ServedFromEntry(r)
        /\ ~Live(req[r].key) => GoesToNetwork(r)

(* C3 as stated: once a miss has written the record of a pair, every read
   of that pair before the entry expires returns the same subnet, hotkey
   and dividend with cached = true, whatever the network holds by then;
   once the entry has expired the next read queries the network and
   returns the fresh value with cached = false. *)
C3_RoundTrip ==
    /\ [][C3_RoundTripStep /\ QueriedValueIsChainValue]_vars
    /\ []FreshFromNetwork

(* a read the cache answers is served from a live entry; any other read
   goes to the network *)
C3_RoundTripAnsweredStep ==
    \A r \in Reqs : ReadStep(r) =>
        /\ (Live(req[r].key) /\ req'[r].getok = Some(TRUE)) => ServedFromEntry(r)
        /\ (~Live(req[r].key) \/ req'[r].getok = Some(FALSE)) => GoesToNetwork(r)

(* C3 amended: once a miss has written the record of a pair, every read
   of that pair that the cache answers before the entry expires returns
   the same subnet, hotkey and dividend with cached = true, whatever the
   network holds by then; a read after the entry has expired, or one the
   cache fails to answer, queries the network and returns the fresh value
   with cached = false. *)
C3_RoundTripWhenCacheAnswers ==
    /\ [][C3_RoundTripAnsweredStep /\ QueriedValueIsChainValue]_vars
    /\ []FreshFromNetwork

(* a hit that returns the dividend an earlier miss of the same pair wrote,
   which the chain no longer holds *)
C3_Witness ==
    \E r, o \in Reqs :
        /\ Hit(r) /\ req[r].pc = "returned"
        /\ The(req[r].result).dividend # chain[PairOf(r)]
        /\ Missed(o) /\ req[o].pc = "returned" /\ req[o].getok = Some(TRUE)
        /\ req[o].key = req[r].key
        /\ req[o].readAt < req[r].readAt

CacheFree(err) == err \in NetErrors \cup {ConstructError}

(* C4: a failing cache never fails a dividend read.  A read the cache
   fails to answer is a miss and the network is queried; a write-back the
   cache fails to take still returns the network record with
   cached = false; the only errors a caller sees come from the network. *)
C4_CacheFailureNotFatal ==
    \A r \in Reqs :
        /\ req[r].raised # None => CacheFree(The(req[r].raised))
        /\ req[r].getok = Some(FALSE) =>
              /\ req[r].cached_data = None
              /\ req[r].acquires = 1
              /\ req[r].pc \in {"cache_set", "returned"} => req[r].queries = 1
              /\ req[r].pc = "raised" => req[r].raised \in {req[r].neterr, Some(ConstructError)}
        /\ req[r].setok = Some(FALSE) =>
              /\ req[r].pc = "returned"
              /\ req[r].raised = None
              /\ req[r].result = Some(MissResult(req[r], The(req[r].netval)))
              /\ The(req[r].result).cached = FALSE

C4_Witness ==
    \E r \in Reqs : /\ req[r].pc = "returned"
                    /\ req[r].getok = Some(FALSE) /\ req[r].setok = Some(FALSE)
                    /\ Live(req[r].key)
                    /\ The(req[r].result).dividend # written[req[r].key].rec.dividend

(* a call whose query failed has raised that error after one query *)
C5_FailedState ==
    \A r \in Reqs : req[r].neterr # None =>
        /\ req[r].pc = "raised"
        /\ req[r].raised = req[r].neterr
        /\ req[r].queries = 1
        /\ req[r].sets = 0 /\ req[r].setok = None
        /\ req[r].result = None

(* the step in which the query fails leaves the cache as it is *)
C5_FailedStep ==
    \A r \in Reqs : (req[r].pc = "query" /\ req'[r].neterr # None) =>
        /\ cache' = cache
        /\ req'[r].raised \in {Some(e) : e \in NetErrors}

(* C5: when the network query fails, that same error is raised to the
   caller, the query was tried exactly once, and the call writes nothing
   to the cache: the entry of the pair stays as it was. *)
C5_QueryFailurePropagates == [](C5_FailedState) /\ [][C5_FailedStep]_vars

C5_Witness ==
    \E r \in Reqs : /\ req[r].pc = "raised" /\ req[r].neterr = Some("TimeoutError")
                    /\ cache[req[r].key].present
                    /\ ~Live(req[r].key)


(* pairs whose hotkey or subnet number would collide if the key were not
   cut at the separators *)
KeyProbes ==
    Pairs \cup {<<1, "5F">>, <<1, "1:5F">>, <<11, "5F">>, <<11, ":5F">>,
                <<1, "">>, <<18, "5F">>, <<1, "8:5F">>}

(* the entry under the key of a pair holds that pair, and a dividend that
   a call of that pair which missed got from its network query and wrote
   back; pairs that differ have keys that differ *)
C35_ProvenanceState ==
    /\ \A p \in Pairs :
          LET k == generate_key("tao_dividends", p[1], p[2])
          IN  cache[k].present =>
                /\ Decodable(cache[k].value)
                /\ json_loads(cache[k].value).netuid = p[1]
                /\ json_loads(cache[k].value).hotkey = p[2]
                /\ \E r \in Reqs :
                      /\ Missed(r) /\ PairOf(r) = p
                      /\ req[r].queries = 1 /\ req[r].setok = Some(TRUE)
                      /\ req[r].netval = Some(json_loads(cache[k].value).dividend)
    /\ \A p \in KeyProbes, q \in KeyProbes :
          generate_key("tao_dividends", p[1], p[2])
              = generate_key("tao_dividends", q[1], q[2]) => p = q

(* the cache changes only in the write-back of a call that missed, under
   the key of that call, to the record of its query; the read of a call,
   hit or miss, leaves every entry and every expiry as it was *)
C35_ProvenanceStep ==
    /\ cache' # cache =>
          \E r \in Reqs :
              /\ Missed(r) /\ req[r].pc = "cache_set" /\ req'[r].pc = "returned"
              /\ cache' = [cache EXCEPT ![req[r].key] =
                      [present |-> TRUE,
                       value |-> json_dumps(MissResult(req[r], The(req[r].netval))),
                       expires |-> now + CACHE_TTL]]
    /\ \A r \in Reqs : ReadStep(r) => cache' = cache

(* C35: cache provenance under concurrency.  In every state the entry
   under the key of a pair holds that pair and a dividend the network
   returned for it to an earlier query; entries are written only on the
   miss path, a hit neither rewrites the entry nor extends its expiry, and
   distinct pairs have distinct keys. *)
C35_CacheProvenance == [](C35_ProvenanceState) /\ [][C35_ProvenanceStep]_vars

(* two calls of one pair both missed at the same instant, got different
   values from the network and both wrote back; the entry holds the
   record of one of them *)
C35_Witness ==
    \E r \in Reqs, o \in Reqs :
        /\ r # o /\ req[r].key = req[o].key
        /\ Missed(r) /\ Missed(o)
        /\ req[r].getok = Some(TRUE) /\ req[o].getok = Some(TRUE)
        /\ req[r].readAt = req[o].readAt /\ now = req[r].readAt
        /\ req[r].setok = Some(TRUE) /\ req[o].setok = Some(TRUE)
        /\ req[r].netval # req[o].netval
        /\ cache[req[r].key].value = json_dumps(The(req[r].result))

(* C12: generation invariant.  The handle the manager holds is recorded
   for the loop that built it; every handle an acquire returned to a call
   or to a task run was built on the loop that call or run executes on;
   and while a dividend query, a stake or an unstake is in progress on a
   handle, that handle has not been closed. *)
C12_GenerationInvariant ==
    /\ subtensor # None => loop = Some(handles[The(subtensor)].loop)
    /\ \A r \in Reqs :
          /\ req[r].handle # None =>
                handles[The(req[r].handle)].loop = req[r].loop
          /\ req[r].pc = "query" =>
                /\ req[r].handle # None
                /\ handles[The(req[r].handle)].closes = 0
          /\ req[r].queries > 0 => req[r].handle # None
    /\ run.handle # None => handles[The(run.handle)].loop = run.loop
    /\ wpc \in {"staking", "unstaking"} =>
          /\ run.handle # None
          /\ handles[The(run.handle)].closes = 0

C12_Witness ==
    \E r \in Reqs :
        /\ req[r].pc = "query"
        /\ req[r].loop = 2
        /\ req[r].handle = Some(2)
        /\ handles[1].loop = 1 /\ handles[1].closes = 1

(* a call that the constructor failed has raised that error and has
   neither queried nor written; a call goes on to the query only with a
   handle *)
C14_FailedState ==
    /\ \A r \in Reqs :
          /\ req[r].raised = Some(ConstructError) =>
                /\ req[r].pc = "raised"
                /\ req[r].handle = None /\ req[r].result = None
                /\ req[r].queries = 0 /\ req[r].sets = 0
          /\ req[r].pc \in {"query", "cache_set"} => req[r].handle # None
    /\ run.raised = Some(ConstructError) =>
          /\ run.handle = None
          /\ wpc \notin {"staking", "unstaking"}
          /\ Finished => run.result.returned /\ ~run.result.success
                          /\ run.result.error = Some(ConstructError)

(* the step in which the constructor fails leaves the manager without a
   handle; an acquire that finds no handle builds one or raises *)
C14_FailedStep ==
    /\ \A r \in Reqs :
          /\ (req[r].raised = None /\ req'[r].raised = Some(ConstructError)) =>
                /\ subtensor' = None /\ loop' = None
                /\ handles' = handles
          /\ (req[r].pc = "cache_get" /\ req'[r].pc \in {"query", "raised"}
                 /\ subtensor = None) =>
                \/ /\ req'[r].pc = "query"
                   /\ Len(handles') = Len(handles) + 1
                   /\ req'[r].handle = Some(Len(handles'))
                   /\ subtensor' = req'[r].handle
                \/ /\ req'[r].raised = Some(ConstructError)
                   /\ handles' = handles
    /\ (run.raised = None /\ run'.raised = Some(ConstructError)) =>
          subtensor' = None /\ loop' = None

(* C14: when the constructor of a handle fails during an acquire, the
   error reaches the operation that asked for the handle (the dividend
   read raises it; the task run ends failed with it), the manager is left
   without a handle, and a later acquire runs the constructor again. *)
C14_ConstructFailure == [](C14_FailedState) /\ [][C14_FailedStep]_vars

C14_Witness ==
    \E r \in Reqs, o \in Reqs :
        /\ r < o
        /\ req[r].raised = Some(ConstructError)
        /\ req[o].handle # None
        /\ req[o].pc = "returned"
        /\ subtensor = req[o].handle

----------------------------------------------------------------------------
(* The handle manager with several tasks of one loop inside it: a caller
   of _get_subtensor and the get_tao_dividends calls of the API process
   share the one bittensor_service, and the calls of one loop run
   interleaved at their awaits *)

RaceNewLoop ==
    /\ mgr.pc = "idle"
    /\ NewLoop

RaceNext ==
    \/ \E cok \in BOOLEAN : Acquire(cok)
    \/ \E raised \in BOOLEAN, cok \in BOOLEAN : AcquireClosed(raised, cok)
    \/ \E r \in Reqs, a \in Args : StartCall(r, a[1], a[2])
    \/ \E r \in Reqs, up \in BOOLEAN, cok \in BOOLEAN : CacheGet(r, up, cok)
    \/ \E r \in Reqs, cok \in BOOLEAN : CloseDone(r, cok)
    \/ \E r \in Reqs, outcome \in {"ok"} \cup NetErrors : Query(r, outcome)
    \/ \E r \in Reqs, up \in BOOLEAN : CacheSet(r, up)
    \/ RaceNewLoop

RaceSpec == Init /\ [][RaceNext]_vars

(* two calls of one loop that both found the handle h of an older loop in
   the manager: the second entered _get_subtensor while the first was
   waiting for h.close() *)
Raced(r1, r2, h) ==
    /\ r1 # r2
    /\ req[r1].loop = req[r2].loop
    /\ req[r1].closing = Some(h) /\ req[r2].closing = Some(h)
    /\ handles[h].loop # req[r1].loop

Acquired(r) == req[r].handle # None

(* C21: when two tasks of a new loop call acquire concurrently and find a
   handle of an old loop, that handle is closed once; once both have their
   handle it is one and the same handle, the only one built on their loop
   since, and no handle that was built is left unclosed unless it is the
   one the manager holds. *)
C21_ConcurrentAcquire ==
    \A r1, r2 \in Reqs, h \in DOMAIN handles : Raced(r1, r2, h) =>
        /\ handles[h].closes = 1
        /\ (Acquired(r1) /\ Acquired(r2)) =>
              /\ req[r1].handle = req[r2].handle
              /\ Cardinality({k \in DOMAIN handles : k > h}) = 1
              /\ \A k \in DOMAIN handles :
                    handles[k].closes = 0 => subtensor = Some(k)

(* where the race ends: the old handle closed twice, two handles built,
   each call holding its own, the first of them neither closed nor held by
   the manager *)
RaceOutcome ==
    \E r1, r2 \in Reqs, h \in DOMAIN handles :
        /\ Raced(r1, r2, h)
        /\ Acquired(r1) /\ Acquired(r2)
        /\ handles[h].closes = 2
        /\ req[r1].handle # req[r2].handle
        /\ handles[The(req[r1].handle)].closes = 0
        /\ subtensor = req[r2].handle

----------------------------------------------------------------------------
(* The same tasks with reset_connections and close among the operations of
   the caller: a reset may begin while a call waits for close(), and a call
   may enter _get_subtensor while the reset waits for it.  The calls are
   followed up to the return of _get_subtensor (line 98); what they do
   afterwards does not touch the manager. *)

MixedNext ==
    \/ \E cok \in BOOLEAN : Acquire(cok)
    \/ \E raised \in BOOLEAN, cok \in BOOLEAN : AcquireClosed(raised, cok)
    \/ \E op \in ManagerOps : Reset(op)
    \/ \E raised \in BOOLEAN : ResetClosed(raised)
    \/ \E r \in Reqs, a \in Args : StartCall(r, a[1], a[2])
    \/ \E r \in Reqs, up \in BOOLEAN, cok \in BOOLEAN : CacheGet(r, up, cok)
    \/ \E r \in Reqs, cok \in BOOLEAN : CloseDone(r, cok)
    \/ RaceNewLoop

MixedSpec == Init /\ [][MixedNext]_vars

(* C33: in every state of the manager a handle is held exactly when a loop
   is recorded, and the recorded loop is the one the held handle was built
   on; no interleaving of acquire, reset and close and no failure of a
   constructor or of close() leaves one field set without the other. *)
C33_HandleIffGeneration ==
    /\ (subtensor # None) <=> (loop # None)
    /\ subtensor # None =>
          /\ The(subtensor) \in DOMAIN handles
          /\ loop = Some(handles[The(subtensor)].loop)

(* a call closed an old handle and its constructor then raised, while the
   caller has had a reset whose close() raised and an acquire of its own *)
C33_Witness ==
    /\ \E r \in Reqs :
          /\ req[r].pc = "raised" /\ req[r].raised = Some(ConstructError)
          /\ req[r].closing # None
    /\ \E i \in OpsDone : IsReset(mgr.log[i]) /\ mgr.log[i].closeRaised
    /\ \E i \in OpsDone : IsAcquire(mgr.log[i]) /\ mgr.log[i].built # <<>>
    /\ mgr.pc = "reset_closing"
    /\ \E r \in Reqs : req[r].pc = "closing"

----------------------------------------------------------------------------
(* The cache as a store other writers reach: redis is a server of its own
   (settings.REDIS_URL), and what GET returns under a key is whatever was
   SET there last, by this service or not *)

ForeignWrite(key) ==
    /\ cache[key].value # Malformed
    /\ cache' = RedisSet(key, Malformed, CACHE_TTL)
    /\ UNCHANGED <<now, chain, req, written, mvars, wvars, gvars, hvars>>

StoreNext ==
    \/ \E r \in Reqs, a \in Args : StartCall(r, a[1], a[2])
    \/ \E r \in Reqs, up \in BOOLEAN, cok \in BOOLEAN : CacheGet(r, up, cok)
    \/ \E r \in Reqs, cok \in BOOLEAN : CloseDone(r, cok)
    \/ \E r \in Reqs, outcome \in {"ok"} \cup NetErrors : Query(r, outcome)
    \/ \E r \in Reqs, up \in BOOLEAN : CacheSet(r, up)
    \/ NewLoop
    \/ \E k \in Keys : ForeignWrite(k)

StoreSpec == Init /\ [][StoreNext]_vars

(* the cache failed the call on its read: redis did not answer, or the
   string it answered is not a JSON document *)
ReadFailed(r) ==
    /\ Started(r)
    /\ \/ req[r].getok = Some(FALSE)
       \/ Truthy(req[r].cached_data) /\ ~Decodable(The(req[r].cached_data))

(* the part of C30 about a cache that does not answer *)
GetFailureIsMiss ==
    \A r \in Reqs : (Started(r) /\ req[r].getok = Some(FALSE)) =>
        /\ req[r].acquires = 1
        /\ req[r].pc = "returned" =>
              /\ req[r].queries = 1
              /\ req[r].result = Some(MissResult(req[r], The(req[r].netval)))

(* C30: a call whose cache read failed, by redis not answering or by a
   stored entry that cannot be deserialized, goes on as after a miss: it
   asks for the handle, and when it returns it returns the record of its
   one network query with cached = FALSE. *)
C30_ReadFailureIsMiss ==
    \A r \in Reqs : ReadFailed(r) =>
        /\ req[r].acquires = 1
        /\ req[r].raised # Some(JSONDecodeError)
        /\ req[r].pc = "returned" =>
              /\ req[r].queries = 1
              /\ req[r].result = Some(MissResult(req[r], The(req[r].netval)))

Next ==
    \/ \E r \in Reqs, a \in Args : StartCall(r, a[1], a[2])
    \/ \E r \in Reqs, up \in BOOLEAN, cok \in BOOLEAN : CacheGet(r, up, cok)
    \/ \E r \in Reqs, cok \in BOOLEAN : CloseDone(r, cok)
    \/ \E r \in Reqs, outcome \in {"ok"} \cup NetErrors : Query(r, outcome)
    \/ \E r \in Reqs, up \in BOOLEAN : CacheSet(r, up)
    \/ NewLoop
    \/ Tick
    \/ \E p \in Pairs, v \in Dividends : ChainUpdate(p, v)

Spec == Init /\ [][Next]_vars

====
